---- MODULE Spec2Model ----
(***************************************************************************)
(* A model of the simulation engine of Automation-Game: the Board, the     *)
(* entity taxonomy, the Level substep pipeline, the save/load/reset        *)
(* snapshots (engine.py), the wiring ports of Wirable entities             *)
(* (entities.py) and the WiringContainer port editor (widgets.py).         *)
(*                                                                         *)
(* Python objects are modelled by identity: an entity is a positive        *)
(* integer id, its attributes live in the map `ents` of the object graph   *)
(* it belongs to, and a (Board, Palette) pair is a slot of `store`.        *)
(* deepcopy copies a slot's value into another slot (ids are kept, which   *)
(* is the copy correspondence of the memo dictionary); an assignment of a  *)
(* reference copies the slot NAME, so two references can alias.            *)
(***************************************************************************)
EXTENDS Integers, Sequences, FiniteSets, TLC

\* ------------------------------------------------------------------ bounds
MaxSubsteps == 10   \* number of Level.substep calls in a run
MaxOps      == 2    \* number of save_state / load_saved_state / reset calls and
                    \* of board and palette edits in a run
MaxWireOps  == 4    \* number of wiring-editor operations in a run (SpecWiring)
MaxCalls    == 4    \* number of direct phase calls in a run (SpecCircuit)
MaxBoardOps == 2    \* number of Board.insert / Board.remove calls in a run (SpecBoard)
MaxBarrels  == 3    \* number of Barrels in the cell that is merged (SpecMerge)
MaxEvents   == 3    \* number of key and mouse events in a run (SpecRunner)
MaxRunSubsteps == 3 \* number of substeps the main loop runs (SpecRunner)
MaxPhaseCalls == 2  \* number of single phase calls in a run (SpecPhase)
MaxSinkBarrels == 2 \* number of Barrels in the cell of the Target (SpecPhase)
MaxClicks   == 3    \* number of clicks on editor widgets in a run (SpecEditor)
MaxFlowCalls == 4   \* number of direct phase calls in a run (SpecFlow)
RecursionLimit == 12    \* the depth of nested resolve_port calls at which the
                        \* interpreter raises RecursionError (far above the
                        \* number of ports of any board of the model)

\* ------------------------------------------------------------ basic values
NoEntity == 0           \* Python None where an entity reference is expected
NoIndex  == 0 - 1       \* Python None where a port index is expected

Range(s) == {s[k] : k \in DOMAIN s}

Min(S) == CHOOSE m \in S : \A n \in S : m <= n

Abs(n) == IF n < 0 THEN 0 - n ELSE n

\* every enumeration order of a finite set (the iteration order of a Python
\* set is not fixed by the language)
Orders(S) ==
    {f \in [1..Cardinality(S) -> S] :
        \A a, b \in 1..Cardinality(S) : a # b => f[a] # f[b]}

\* one fixed enumeration of a finite set, for loops whose order cannot be
\* observed (each iteration touches only its own entity or cell)
RECURSIVE SetToSeq(_)
SetToSeq(S) ==
    IF S = {} THEN <<>>
    ELSE LET x == CHOOSE x \in S : TRUE IN <<x>> \o SetToSeq(S \ {x})

\* list.remove(x): drop the first occurrence of x
RemoveFirst(s, x) ==
    LET k == Min({n \in DOMAIN s : s[n] = x})
    IN  SubSeq(s, 1, k - 1) \o SubSeq(s, k + 1, Len(s))

\* ---------------------------------------------------------------- helpers.py
Directions == {"NONE", "NORTH", "EAST", "SOUTH", "WEST"}

DirVec(d) ==
    CASE d = "NONE"  -> <<0, 0>>
      [] d = "NORTH" -> <<0, 0 - 1>>
      [] d = "EAST"  -> <<1, 0>>
      [] d = "SOUTH" -> <<0, 1>>
      [] d = "WEST"  -> <<0 - 1, 0>>

V2Add(p, d) == <<p[1] + DirVec(d)[1], p[2] + DirVec(d)[2]>>

\* ----------------------------------------------------------------- colors.py
Colors ==
    {"RED", "RED_ORANGE", "ORANGE", "YELLOW_ORANGE", "YELLOW", "YELLOW_GREEN",
     "GREEN", "BLUE_GREEN", "BLUE", "BLUE_VIOLET", "VIOLET", "RED_VIOLET",
     "BROWN"}

ColorValue(c) ==
    CASE c = "RED"           -> <<4, 0, 0>>
      [] c = "RED_ORANGE"    -> <<3, 1, 0>>
      [] c = "ORANGE"        -> <<2, 2, 0>>
      [] c = "YELLOW_ORANGE" -> <<1, 3, 0>>
      [] c = "YELLOW"        -> <<0, 4, 0>>
      [] c = "YELLOW_GREEN"  -> <<0, 3, 1>>
      [] c = "GREEN"         -> <<0, 2, 2>>
      [] c = "BLUE_GREEN"    -> <<0, 1, 3>>
      [] c = "BLUE"          -> <<0, 0, 4>>
      [] c = "BLUE_VIOLET"   -> <<1, 0, 3>>
      [] c = "VIOLET"        -> <<2, 0, 2>>
      [] c = "RED_VIOLET"    -> <<3, 0, 1>>
      [] c = "BROWN"         -> <<1, 1, 1>>

\* Color(tuple): the member with that value; Python raises ValueError when
\* there is none
ColorOfValue(v) ==
    IF \E c \in Colors : ColorValue(c) = v
    THEN CHOOSE c \in Colors : ColorValue(c) = v
    ELSE "ValueError"

\* a variant of Color.adjacent that takes colours one step apart only
adjacent_one_step(a, b) ==
    LET va == ColorValue(a)
        vb == ColorValue(b)
    IN  Abs(va[1] - vb[1]) + Abs(va[2] - vb[2]) + Abs(va[3] - vb[3]) <= 1

adjacent(a, b) ==
    LET va == ColorValue(a)
        vb == ColorValue(b)
    IN  Abs(va[1] - vb[1]) + Abs(va[2] - vb[2]) + Abs(va[3] - vb[3]) <= 2

\* a variant of Color.__add__ whose adjacent pairs yield the left operand
ColorAddKeepsLeft(a, b) ==
    LET va == ColorValue(a)
        vb == ColorValue(b)
    IN  IF \A k \in 1..3 : va[k] + vb[k] > 0 THEN "BROWN"
        ELSE IF adjacent(a, b) THEN a
        ELSE ColorOfValue(<<(va[1] + vb[1]) \div 2, (va[2] + vb[2]) \div 2,
                            (va[3] + vb[3]) \div 2>>)

\* a variant of Color.__add__ that makes brown as soon as one component is
\* present
ColorAddAnyComponent(a, b) ==
    LET va == ColorValue(a)
        vb == ColorValue(b)
    IN  IF \E k \in 1..3 : va[k] + vb[k] > 0 THEN "BROWN"
        ELSE IF adjacent(a, b) THEN (IF 1 \in Range(va) THEN a ELSE b)
        ELSE ColorOfValue(<<(va[1] + vb[1]) \div 2, (va[2] + vb[2]) \div 2,
                            (va[3] + vb[3]) \div 2>>)

\* a variant of Color.__add__ that never shifts the midpoint
ColorAddUnshifted(a, b) ==
    LET va == ColorValue(a)
        vb == ColorValue(b)
    IN  IF \A k \in 1..3 : va[k] + vb[k] > 0 THEN "BROWN"
        ELSE IF adjacent(a, b) THEN (IF 1 \in Range(va) THEN a ELSE b)
        ELSE ColorOfValue(<<(va[1] + vb[1]) \div 2, (va[2] + vb[2]) \div 2,
                            (va[3] + vb[3]) \div 2>>)

\* Color.__add__
ColorAdd(a, b) ==
    LET va == ColorValue(a)
        vb == ColorValue(b)
    IN  IF \A k \in 1..3 : va[k] + vb[k] > 0 THEN "BROWN"
        ELSE IF adjacent(a, b) THEN (IF 1 \in Range(va) THEN a ELSE b)
        ELSE LET midpoint == <<(va[1] + vb[1]) \div 2, (va[2] + vb[2]) \div 2,
                               (va[3] + vb[3]) \div 2>>
                 total    == midpoint[1] + midpoint[2] + midpoint[3]
                 \* max(..., key=...) returns the first index of the maximum
                 imax     == Min({k \in 1..3 :
                                    \A n \in 1..3 : midpoint[n] <= midpoint[k]})
                 shifted  == IF total < 4
                             THEN [midpoint EXCEPT ![imax] = @ + 1]
                             ELSE midpoint
             IN  ColorOfValue(shifted)

\* --------------------------------------------------------------- entities.py
WirableKinds == {"Piston", "Sensor", "PressurePlate", "AndGate", "OrGate", "NotGate"}
GateKinds    == {"AndGate", "OrGate", "NotGate"}

\* class attributes of the entity kinds
moves(kind)  == kind = "Barrel"
merges(kind) == kind = "Barrel"
stops(kind)  == kind \in {"Barrier", "ResourceExtractor", "Piston", "Sensor"}

min_num_inputs(kind) ==
    CASE kind = "Piston" -> 1
      [] kind \in {"Sensor", "PressurePlate"} -> 0
      [] kind \in {"AndGate", "OrGate"} -> 2
      [] kind = "NotGate" -> 1

max_num_inputs(kind) ==
    CASE kind = "Piston" -> 1
      [] kind \in {"Sensor", "PressurePlate"} -> 0
      [] kind \in {"AndGate", "OrGate"} -> 5
      [] kind = "NotGate" -> 1

min_num_outputs(kind) == IF kind = "Piston" THEN 0 ELSE 1

max_num_outputs(kind) == IF kind = "Piston" THEN 0 ELSE 30

\* Entity.__init__ and the subclasses' constructors: every entity is a record
\* of the same shape, a field a kind does not have keeps its default
Entity(kind) ==
    [kind |-> kind, color |-> "NoColor", dir |-> "NONE", count |-> 0,
     period |-> 0, phase |-> 0, activated |-> "None",
     num_inputs |-> 0, num_outputs |-> 0,
     wirings |-> <<>>, port_states |-> <<>>, ports_visited |-> <<>>]

Barrier == Entity("Barrier")

Barrel(color, velocity) == [Entity("Barrel") EXCEPT !.color = color, !.dir = velocity]

ResourceTile(color) == [Entity("ResourceTile") EXCEPT !.color = color]

ResourceExtractor(orientation) ==
    [Entity("ResourceExtractor") EXCEPT !.dir = orientation, !.period = 3, !.phase = 1]

Boostpad(orientation) == [Entity("Boostpad") EXCEPT !.dir = orientation]

Target(color, count) == [Entity("Target") EXCEPT !.color = color, !.count = count]

FreePort(is_input) == [inp |-> is_input, other |-> NoEntity, j |-> NoIndex]

\* Wirable.__init__: min_num_inputs input ports followed by min_num_outputs
\* output ports, none connected, port_states None, ports_visited False
Wirable(kind, orientation) ==
    LET ni == min_num_inputs(kind)
        no == min_num_outputs(kind)
    IN  [Entity(kind) EXCEPT
            !.dir = orientation,
            !.num_inputs = ni,
            !.num_outputs = no,
            !.wirings = [k \in 1..(ni + no) |-> FreePort(k <= ni)],
            !.port_states = [k \in 1..(ni + no) |-> "None"],
            !.ports_visited = [k \in 1..(ni + no) |-> FALSE]]

\* ------------------------------------------------------------ engine.py: Board
(* A working state W of the engine is the record                            *)
(*   cells      the dict Board.cells: position -> list of entity ids        *)
(*   type_locs  the (position, entity) pairs of Board.type_locs; the type   *)
(*              an entry is filed under is the kind of the entity           *)
(*   ents       entity id -> attributes                                     *)
(*   next_id    the id the next constructed entity gets                     *)
(*   step_count, won   the fields of Level the phases read and write        *)
(*   error      "none", or the name of the exception that ended the call    *)
(*   log        the phases called so far in the current tick                *)
(*   spawned    the extractors that inserted a Barrel so far in the tick    *)
(*   bodies     the ports whose resolution body ran so far in the call      *)
(*   depth      the number of resolve_port calls on the stack               *)

\* Board.get
BoardGet(W, pos) == IF pos \in DOMAIN W.cells THEN W.cells[pos] ELSE <<>>

\* Board.insert(x, y, *entities)
BoardInsert(W, pos, es) ==
    [W EXCEPT
        !.cells = [p \in (DOMAIN W.cells) \cup {pos} |->
                      IF p = pos THEN BoardGet(W, pos) \o es ELSE W.cells[p]],
        !.type_locs = @ \cup {<<pos, es[k]>> : k \in DOMAIN es}]

\* the loop of Board.remove: list.remove raises ValueError and set.remove
\* raises KeyError when the element is missing; what was removed before stays
\* removed
RECURSIVE BoardRemoveLoop(_, _, _, _)
BoardRemoveLoop(W, pos, es, k) ==
    IF k > Len(es) THEN W
    ELSE IF es[k] \notin Range(W.cells[pos]) THEN [W EXCEPT !.error = "ValueError"]
    ELSE LET W1 == [W EXCEPT !.cells[pos] = RemoveFirst(@, es[k])]
         IN  IF <<pos, es[k]>> \notin W1.type_locs
             THEN [W1 EXCEPT !.error = "KeyError"]
             ELSE BoardRemoveLoop(
                     [W1 EXCEPT !.type_locs = @ \ {<<pos, es[k]>>}], pos, es, k + 1)

\* Board.remove(x, y, *entities); the cell keeps its key when it becomes empty
BoardRemove(W, pos, es) ==
    IF \/ pos \notin DOMAIN W.cells
       \/ \E k \in DOMAIN es : es[k] \notin Range(W.cells[pos])
    THEN [W EXCEPT !.error = "ValueError"]
    ELSE BoardRemoveLoop(W, pos, es, 1)

\* Board.get_all(filter_type=T) for a leaf class T: the entries of
\* type_locs[T]
EntriesOf(W, kinds) == {en \in W.type_locs : W.ents[en[2]].kind \in kinds}

\* Board.find(entity): the positions the scan of get_all(filter_type=type(e))
\* can return first, NoEntity for None
find(W, e) ==
    LET hits == {en \in EntriesOf(W, {W.ents[e].kind}) : en[2] = e}
    IN  IF hits = {} THEN {NoEntity} ELSE {en[1] : en \in hits}

\* the orders in which Board.get_all(filter_type=T) can yield the entries of
\* the kinds: type after type (the order of the dict type_locs), the entries of
\* one type in the order of a Python set
GetAllOrders(W, kinds) ==
    LET S == EntriesOf(W, kinds)
        K(en) == W.ents[en[2]].kind
    IN  {o \in Orders(S) :
            \A a, b, c \in DOMAIN o :
                (a < b /\ b < c /\ K(o[a]) = K(o[c])) => K(o[b]) = K(o[a])}

\* a constructed entity gets a fresh identity
NewEntity(W, rec) ==
    [W EXCEPT !.ents = [i \in (DOMAIN W.ents) \cup {W.next_id} |->
                           IF i = W.next_id THEN rec ELSE W.ents[i]],
              !.next_id = @ + 1]

\* ------------------------------------------------------------ engine.py: Level
\* a variant of is_walkable that takes every occupied cell as blocked
is_walkable_empty(W, coords) == BoardGet(W, coords) = <<>>

\* Level.is_walkable
is_walkable(W, coords) ==
    \A k \in DOMAIN BoardGet(W, coords) : ~stops(W.ents[BoardGet(W, coords)[k]].kind)

\* a variant of ExtractOne that ignores the phase of the extractor
ExtractOneAnyPhase(W, en) ==
    LET e    == W.ents[en[2]]
        cell == BoardGet(W, en[1])
        tiles == {k \in DOMAIN cell : W.ents[cell[k]].kind = "ResourceTile"}
    IN  IF e.period = 0 THEN [W EXCEPT !.error = "ZeroDivisionError"]
        ELSE IF W.step_count % e.period = 0 /\ tiles # {}
        THEN LET d  == W.ents[cell[Min(tiles)]]
                 W1 == NewEntity(W, Barrel(d.color, e.dir))
             IN  [BoardInsert(W1, en[1], <<W.next_id>>) EXCEPT
                     !.spawned = Append(@, en[2])]
        ELSE W

\* a variant of ExtractOne that takes the colour of the last ResourceTile
ExtractOneLastTile(W, en) ==
    LET e    == W.ents[en[2]]
        cell == BoardGet(W, en[1])
        tiles == {k \in DOMAIN cell : W.ents[cell[k]].kind = "ResourceTile"}
        last == CHOOSE k \in tiles : \A n \in tiles : n <= k
    IN  IF W.step_count % e.period = e.phase - 1 /\ tiles # {}
        THEN LET W1 == NewEntity(W, Barrel(W.ents[cell[last]].color, e.dir))
             IN  [BoardInsert(W1, en[1], <<W.next_id>>) EXCEPT
                     !.spawned = Append(@, en[2])]
        ELSE W

\* the body of the loop of apply_resource_extractors for one extractor
ExtractOne(W, en) ==
    LET e    == W.ents[en[2]]
        cell == BoardGet(W, en[1])
        tiles == {k \in DOMAIN cell : W.ents[cell[k]].kind = "ResourceTile"}
    IN  IF e.period = 0 THEN [W EXCEPT !.error = "ZeroDivisionError"]
        ELSE IF W.step_count % e.period = e.phase - 1 /\ tiles # {}
        THEN LET d  == W.ents[cell[Min(tiles)]]
                 W1 == NewEntity(W, Barrel(d.color, e.dir))
             IN  [BoardInsert(W1, en[1], <<W.next_id>>) EXCEPT
                     !.spawned = Append(@, en[2])]
        ELSE W

RECURSIVE ExtractLoop(_, _, _)
ExtractLoop(W, order, k) ==
    IF k > Len(order) \/ W.error # "none" THEN W
    ELSE ExtractLoop(ExtractOne(W, order[k]), order, k + 1)

\* Level.apply_resource_extractors
apply_resource_extractors(W) ==
    {ExtractLoop(W, o, 1) : o \in GetAllOrders(W, {"ResourceExtractor"})}

\* a variant of TranslateOne in which nothing moves
TranslateOneStuck(W, en) == W

\* the body of the loop of apply_translations for one (pos, barrel)
TranslateOne(W, en) ==
    LET e    == W.ents[en[2]]
        dest == V2Add(en[1], e.dir)
    IN  IF moves(e.kind) /\ is_walkable(W, dest)
        THEN LET W1 == BoardRemove(W, en[1], <<en[2]>>)
             IN  IF W1.error # "none" THEN W1
                 ELSE BoardInsert(W1, dest, <<en[2]>>)
        ELSE W

RECURSIVE TranslateLoop(_, _, _)
TranslateLoop(W, order, k) ==
    IF k > Len(order) \/ W.error # "none" THEN W
    ELSE TranslateLoop(TranslateOne(W, order[k]), order, k + 1)

\* Level.apply_translations
apply_translations(W) ==
    {TranslateLoop(W, o, 1) : o \in GetAllOrders(W, {"Barrel"})}

\* a variant of MergeColor that mixes the first Barrel with the last one only
MergeColorFirstLast(W, mergable, k, acc) ==
    ColorAdd(acc, W.ents[mergable[Len(mergable)]].color)

\* sum(mergable[1:], mergable[0]) with Barrel.__add__: the colour of the
\* left-to-right fold
RECURSIVE MergeColor(_, _, _, _)
MergeColor(W, mergable, k, acc) ==
    IF k > Len(mergable) \/ acc = "ValueError" THEN acc
    ELSE MergeColor(W, mergable, k + 1, ColorAdd(acc, W.ents[mergable[k]].color))

\* a variant of MergeOne in which the new Barrel keeps the velocity of the
\* first Barrel it replaces
MergeOneKeepsVelocity(W, pos) ==
    LET IsMergable(id) == merges(W.ents[id].kind)
        mergable == SelectSeq(W.cells[pos], IsMergable)
    IN  IF Len(mergable) > 1
        THEN LET c == MergeColor(W, mergable, 2, W.ents[mergable[1]].color)
             IN  IF c = "ValueError" THEN [W EXCEPT !.error = "ValueError"]
                 ELSE LET W1 == NewEntity(W, Barrel(c, W.ents[mergable[1]].dir))
                          W2 == BoardRemove(W1, pos, mergable)
                      IN  IF W2.error # "none" THEN W2
                          ELSE BoardInsert(W2, pos, <<W.next_id>>)
        ELSE W

\* the body of the loop of apply_merges for one cell
MergeOne(W, pos) ==
    LET IsMergable(id) == merges(W.ents[id].kind)
        mergable == SelectSeq(W.cells[pos], IsMergable)
    IN  IF Len(mergable) > 1
        THEN LET c == MergeColor(W, mergable, 2, W.ents[mergable[1]].color)
             IN  IF c = "ValueError" THEN [W EXCEPT !.error = "ValueError"]
                 ELSE LET W1 == NewEntity(W, Barrel(c, "NONE"))
                          W2 == BoardRemove(W1, pos, mergable)
                      IN  IF W2.error # "none" THEN W2
                          ELSE BoardInsert(W2, pos, <<W.next_id>>)
        ELSE W

RECURSIVE MergeLoop(_, _, _)
MergeLoop(W, order, k) ==
    IF k > Len(order) \/ W.error # "none" THEN W
    ELSE MergeLoop(MergeOne(W, order[k]), order, k + 1)

\* Level.apply_merges: the cells are merged one by one, each on its own
apply_merges(W) == {MergeLoop(W, SetToSeq(DOMAIN W.cells), 1)}

\* the inner loop of apply_rotations: every mover of the cell takes the
\* orientation of the boostpad
RotateOne(W, en) ==
    LET cell == BoardGet(W, en[1])
        here == {cell[k] : k \in {n \in DOMAIN cell : moves(W.ents[cell[n]].kind)}}
    IN  [W EXCEPT !.ents = [i \in DOMAIN W.ents |->
            IF i \in here THEN [W.ents[i] EXCEPT !.dir = W.ents[en[2]].dir]
            ELSE W.ents[i]]]

RECURSIVE RotateLoop(_, _, _)
RotateLoop(W, order, k) ==
    IF k > Len(order) THEN W ELSE RotateLoop(RotateOne(W, order[k]), order, k + 1)

\* Level.apply_rotations
apply_rotations(W) ==
    {RotateLoop(W, o, 1) : o \in GetAllOrders(W, {"Boostpad"})}

\* a variant of the inner loop of apply_targets that absorbs only the Barrels
\* of the Target's colour
RECURSIVE AbsorbLoopMatching(_, _, _, _)
AbsorbLoopMatching(W, en, cell, k) ==
    IF k > Len(cell) \/ W.error # "none" THEN W
    ELSE IF W.ents[cell[k]].kind = "Barrel"
            /\ W.ents[cell[k]].color = W.ents[en[2]].color
    THEN AbsorbLoopMatching(
            [BoardRemove(W, en[1], <<cell[k]>>) EXCEPT !.ents[en[2]].count = @ - 1],
            en, cell, k + 1)
    ELSE AbsorbLoopMatching(W, en, cell, k + 1)

\* the inner loop of apply_targets over the snapshot `cell` of the cell
RECURSIVE AbsorbLoop(_, _, _, _)
AbsorbLoop(W, en, cell, k) ==
    IF k > Len(cell) \/ W.error # "none" THEN W
    ELSE IF W.ents[cell[k]].kind = "Barrel"
    THEN LET W1 == BoardRemove(W, en[1], <<cell[k]>>)
             W2 == IF W1.error = "none" /\ W.ents[cell[k]].color = W.ents[en[2]].color
                   THEN [W1 EXCEPT !.ents[en[2]].count = @ - 1]
                   ELSE W1
         IN  AbsorbLoop(W2, en, cell, k + 1)
    ELSE AbsorbLoop(W, en, cell, k + 1)

RECURSIVE TargetLoop(_, _, _)
TargetLoop(W, order, k) ==
    IF k > Len(order) \/ W.error # "none" THEN W
    ELSE TargetLoop(AbsorbLoop(W, order[k], BoardGet(W, order[k][1]), 1), order, k + 1)

\* Level.apply_targets
apply_targets(W) ==
    {TargetLoop(W, o, 1) : o \in GetAllOrders(W, {"Target"})}

\* a variant of check_won that asks for one satisfied Target
check_won_any(W) ==
    {[W EXCEPT !.won = \E en \in EntriesOf(W, {"Target"}) : W.ents[en[2]].count = 0]}

\* Level.check_won
check_won(W) ==
    {[W EXCEPT !.won = \A en \in EntriesOf(W, {"Target"}) : W.ents[en[2]].count = 0]}

\* the body of the loop of apply_sensors for one (pos, sensor)
SenseOne(W, en) ==
    LET target_cell == BoardGet(W, V2Add(en[1], W.ents[en[2]].dir))
        seen == \E k \in DOMAIN target_cell : W.ents[target_cell[k]].kind = "Barrel"
    IN  [W EXCEPT !.ents[en[2]].activated = IF seen THEN "True" ELSE "False"]

RECURSIVE SenseLoop(_, _, _)
SenseLoop(W, order, k) ==
    IF k > Len(order) THEN W ELSE SenseLoop(SenseOne(W, order[k]), order, k + 1)

\* Level.apply_sensors
apply_sensors(W) ==
    {SenseLoop(W, o, 1) : o \in GetAllOrders(W, {"Sensor"})}

\* ------------------------------------------------- entities.py: port resolution
\* A port index i is the Python index (from 0); the lists are 1-based here.
\* Port states are "None", "True" and "False".
Truthy(v) == v = "True"

PyBool(b) == IF b THEN "True" ELSE "False"

\* Wirable.clear_ports_visited
clear_ports_visited(e) ==
    [e EXCEPT !.ports_visited = [k \in DOMAIN e.port_states |-> FALSE]]

\* Wirable.clear_ports_states
clear_ports_states(e) ==
    [e EXCEPT !.port_states = [k \in DOMAIN e.port_states |-> "None"]]

\* e.clear_ports_states() and e.clear_ports_visited() on every Wirable of the
\* board
ClearAllPorts(W) ==
    LET wirables == {en[2] : en \in EntriesOf(W, WirableKinds)}
    IN  [W EXCEPT !.ents = [i \in DOMAIN W.ents |->
            IF i \in wirables THEN clear_ports_visited(clear_ports_states(W.ents[i]))
            ELSE W.ents[i]]]

\* Level.reset_wiring_network: the loop calls e.clear_ports() on the first
\* Wirable it gets; no class defines clear_ports (Wirable has
\* clear_ports_visited and clear_ports_states), so the attribute lookup raises
\* AttributeError and nothing is cleared
reset_wiring_network(W) ==
    {IF EntriesOf(W, WirableKinds) = {} THEN W
     ELSE [W EXCEPT !.error = "AttributeError"]}

\* a variant of the gates' eval in which every gate is high when an input is
GateEvalAnyInput(kind, inputs) == PyBool(\E k \in DOMAIN inputs : Truthy(inputs[k]))

\* AndGate.eval, OrGate.eval, NotGate.eval on the list of resolved inputs
GateEval(kind, inputs) ==
    CASE kind = "AndGate" -> PyBool(\A k \in DOMAIN inputs : Truthy(inputs[k]))
      [] kind = "OrGate"  -> PyBool(\E k \in DOMAIN inputs : Truthy(inputs[k]))
      [] kind = "NotGate" -> PyBool(~Truthy(inputs[1]))

\* a call returns the working state it leaves and its result
Ret(W, res) == [w |-> W, res |-> res]

Raise(W, exc) == [w |-> [W EXCEPT !.error = exc], res |-> "None"]

RECURSIVE resolve_port(_, _, _)
RECURSIVE resolve_output_port(_, _, _)
RECURSIVE ResolveInputs(_, _, _, _)
RECURSIVE ResolveFrame(_, _, _)

\* a variant of ResolveFrame without the visited short-circuit
ResolveFrameUnmarked(W, id, i) ==
    LET e == W.ents[id]
    IN  IF i < 0 \/ i >= Len(e.ports_visited) THEN Raise(W, "IndexError")
        ELSE LET W1 == [W EXCEPT !.bodies = Append(@, <<id, i>>)]
             IN  IF i >= Len(e.wirings) THEN Raise(W1, "IndexError")
                 ELSE LET wi == e.wirings[i + 1]
                          r  == IF wi.other = NoEntity THEN Ret(W1, "False")
                                ELSE IF wi.inp THEN resolve_port(W1, wi.other, wi.j)
                                ELSE resolve_output_port(W1, id, i)
                      IN  IF r.w.error # "none" THEN r
                          ELSE IF i >= Len(r.w.ents[id].port_states)
                          THEN Raise(r.w, "IndexError")
                          ELSE Ret([r.w EXCEPT !.ents[id].port_states[i + 1] = r.res],
                                   r.res)

\* a variant of ResolveFrame that does not cache the value of an input port
ResolveFrameUncached(W, id, i) ==
    LET e == W.ents[id]
    IN  IF i < 0 \/ i >= Len(e.ports_visited) THEN Raise(W, "IndexError")
        ELSE IF e.ports_visited[i + 1]
        THEN (IF i >= Len(e.port_states) THEN Raise(W, "IndexError")
              ELSE Ret(W, e.port_states[i + 1]))
        ELSE LET W1 == [W EXCEPT !.ents[id].ports_visited[i + 1] = TRUE,
                                 !.bodies = Append(@, <<id, i>>)]
             IN  IF i >= Len(e.wirings) THEN Raise(W1, "IndexError")
                 ELSE LET wi == e.wirings[i + 1]
                          r  == IF wi.other = NoEntity THEN Ret(W1, "False")
                                ELSE IF wi.inp THEN resolve_port(W1, wi.other, wi.j)
                                ELSE resolve_output_port(W1, id, i)
                      IN  IF r.w.error # "none" THEN r
                          ELSE IF i >= Len(r.w.ents[id].port_states)
                          THEN Raise(r.w, "IndexError")
                          ELSE IF wi.inp /\ wi.other # NoEntity THEN r
                          ELSE Ret([r.w EXCEPT !.ents[id].port_states[i + 1] = r.res],
                                   r.res)

\* the frame of one call of Wirable.resolve_port
ResolveFrame(W, id, i) ==
    LET e == W.ents[id]
    IN  IF i < 0 \/ i >= Len(e.ports_visited) THEN Raise(W, "IndexError")
        ELSE IF e.ports_visited[i + 1]
        THEN (IF i >= Len(e.port_states) THEN Raise(W, "IndexError")
              ELSE Ret(W, e.port_states[i + 1]))
        ELSE LET W1 == [W EXCEPT !.ents[id].ports_visited[i + 1] = TRUE,
                                 !.bodies = Append(@, <<id, i>>)]
             IN  IF i >= Len(e.wirings) THEN Raise(W1, "IndexError")
                 ELSE LET wi == e.wirings[i + 1]
                          r  == IF wi.other = NoEntity THEN Ret(W1, "False")
                                ELSE IF wi.inp THEN resolve_port(W1, wi.other, wi.j)
                                ELSE resolve_output_port(W1, id, i)
                      IN  IF r.w.error # "none" THEN r
                          ELSE IF i >= Len(r.w.ents[id].port_states)
                          THEN Raise(r.w, "IndexError")
                          ELSE Ret([r.w EXCEPT !.ents[id].port_states[i + 1] = r.res],
                                   r.res)

\* Wirable.resolve_port: a call pushes a frame, and the interpreter raises
\* RecursionError when the stack is full
resolve_port(W, id, i) ==
    IF W.depth >= RecursionLimit THEN Raise(W, "RecursionError")
    ELSE LET r == ResolveFrame([W EXCEPT !.depth = @ + 1], id, i)
         IN  [r EXCEPT !.w.depth = W.depth]

\* the list comprehension of Gate.resolve_output_port: the inputs are
\* resolved one after the other
ResolveInputs(W, id, k, acc) ==
    IF k >= W.ents[id].num_inputs THEN Ret(W, acc)
    ELSE LET r == resolve_port(W, id, k)
         IN  IF r.w.error # "none" THEN r
             ELSE ResolveInputs(r.w, id, k + 1, Append(acc, r.res))

\* resolve_output_port of Piston, Sensor, PressurePlate and Gate
resolve_output_port(W, id, i) ==
    LET e == W.ents[id]
    IN  IF e.wirings[i + 1].inp THEN Raise(W, "ValueError")
        ELSE CASE e.kind = "Piston" -> resolve_port(W, id, 0)
               [] e.kind \in {"Sensor", "PressurePlate"} ->
                    IF e.activated = "None" THEN Raise(W, "RuntimeError")
                    ELSE Ret(W, e.activated)
               [] e.kind \in GateKinds ->
                    LET r == ResolveInputs(W, id, 0, <<>>)
                    IN  IF r.w.error # "none" THEN r
                        ELSE IF e.kind = "NotGate" /\ Len(r.res) # 1
                        THEN Raise(r.w, "TypeError")
                        ELSE Ret(r.w, GateEval(e.kind, r.res))

\* the first loop of resolve_wiring_network: every port of every Wirable
RECURSIVE ResolveAll(_, _, _, _)
ResolveAll(W, order, k, i) ==
    IF k > Len(order) \/ W.error # "none" THEN W
    ELSE IF i >= Len(W.ents[order[k][2]].port_states) THEN ResolveAll(W, order, k + 1, 0)
    ELSE ResolveAll(resolve_port(W, order[k][2], i).w, order, k, i + 1)

\* Wirable.on_ports_resolved; Piston overrides it
on_ports_resolved(e) ==
    IF e.kind = "Piston" THEN [e EXCEPT !.activated = e.port_states[1]] ELSE e

\* the sanity checks that end resolve_wiring_network
SanityChecks(W) ==
    LET wirables == {en[2] : en \in EntriesOf(W, WirableKinds)}
        Bad(id, k) ==
            LET wi == W.ents[id].wirings[k]
            IN  /\ wi.other # NoEntity
                /\ W.ents[id].port_states[k] # W.ents[wi.other].port_states[wi.j + 1]
    IN  IF \E id \in wirables : "None" \in Range(W.ents[id].port_states)
        THEN [W EXCEPT !.error = "AssertionError"]
        ELSE IF \E id \in wirables : \E k \in DOMAIN W.ents[id].port_states : Bad(id, k)
        THEN [W EXCEPT !.error = "AssertionError"]
        ELSE W

ResolveWith(W, order) ==
    LET W1 == ResolveAll(W, order, 1, 0)
        wirables == {en[2] : en \in EntriesOf(W, WirableKinds)}
        W2 == [W1 EXCEPT !.ents = [i \in DOMAIN W1.ents |->
                  IF i \in wirables THEN on_ports_resolved(W1.ents[i]) ELSE W1.ents[i]]]
    IN  IF W1.error # "none" THEN W1 ELSE SanityChecks(W2)

\* Level.resolve_wiring_network
resolve_wiring_network(W) ==
    {ResolveWith(W, o) : o \in GetAllOrders(W, WirableKinds)}

\* the inner loop of apply_pistons over the snapshot `cell` of the faced cell
RECURSIVE PushLoop(_, _, _, _)
PushLoop(W, en, cell, k) ==
    LET focus == V2Add(en[1], W.ents[en[2]].dir)
    IN  IF k > Len(cell) \/ W.error # "none" THEN W
        ELSE IF moves(W.ents[cell[k]].kind)
        THEN LET W1 == [W EXCEPT !.ents[cell[k]].dir = W.ents[en[2]].dir]
                 W2 == BoardRemove(W1, focus, <<cell[k]>>)
                 W3 == IF W2.error # "none" THEN W2
                       ELSE BoardInsert(W2, V2Add(focus, W.ents[en[2]].dir), <<cell[k]>>)
             IN  PushLoop(W3, en, cell, k + 1)
        ELSE PushLoop(W, en, cell, k + 1)

RECURSIVE PistonLoop(_, _, _)
PistonLoop(W, order, k) ==
    IF k > Len(order) \/ W.error # "none" THEN W
    ELSE IF Truthy(W.ents[order[k][2]].activated)
    THEN PistonLoop(
            PushLoop(W, order[k],
                     BoardGet(W, V2Add(order[k][1], W.ents[order[k][2]].dir)), 1),
            order, k + 1)
    ELSE PistonLoop(W, order, k + 1)

\* Level.apply_pistons
apply_pistons(W) ==
    {PistonLoop(W, o, 1) : o \in GetAllOrders(W, {"Piston"})}

\* ------------------------------------------------- engine.py: Level.substep
\* variants of the table of phases: the pistons before the resolution, a
\* single apply_merges, the win check before the targets
substepsPistonsFirst ==
    << <<"apply_merges", "apply_rotations", "apply_targets", "check_won",
         "reset_wiring_network", "apply_resource_extractors", "apply_translations">>,
       <<"apply_merges", "apply_sensors", "apply_pistons", "resolve_wiring_network">> >>

substepsSingleMerge ==
    << <<"apply_merges", "apply_rotations", "apply_targets", "check_won",
         "reset_wiring_network", "apply_resource_extractors", "apply_translations">>,
       <<"apply_sensors", "resolve_wiring_network", "apply_pistons">> >>

substepsWinCheckFirst ==
    << <<"apply_merges", "apply_rotations", "check_won", "apply_targets",
         "reset_wiring_network", "apply_resource_extractors", "apply_translations">>,
       <<"apply_merges", "apply_sensors", "resolve_wiring_network", "apply_pistons">> >>

\* Level.substeps: the phases of the two substeps of a tick
substeps ==
    << <<"apply_merges", "apply_rotations", "apply_targets", "check_won",
         "reset_wiring_network", "apply_resource_extractors", "apply_translations">>,
       <<"apply_merges", "apply_sensors", "resolve_wiring_network", "apply_pistons">> >>

\* fun(): the working states one phase can leave, one for each enumeration
\* order that the phase can see
CallFun(fun, W) ==
    LET W1 == [W EXCEPT !.log = Append(@, fun)]
    IN  CASE fun = "apply_merges"              -> apply_merges(W1)
          [] fun = "apply_rotations"           -> apply_rotations(W1)
          [] fun = "apply_targets"             -> apply_targets(W1)
          [] fun = "check_won"                 -> check_won(W1)
          [] fun = "reset_wiring_network"      -> reset_wiring_network(W1)
          [] fun = "apply_resource_extractors" -> apply_resource_extractors(W1)
          [] fun = "apply_translations"        -> apply_translations(W1)
          [] fun = "apply_sensors"             -> apply_sensors(W1)
          [] fun = "resolve_wiring_network"    -> resolve_wiring_network(W1)
          [] fun = "apply_pistons"             -> apply_pistons(W1)

\* `for fun in self.substeps[self.current_substep]: fun()`; an exception ends
\* the loop
RECURSIVE RunFuns(_, _, _)
RunFuns(funs, k, Ws) ==
    IF k > Len(funs) THEN Ws
    ELSE RunFuns(funs, k + 1,
            UNION {IF W.error # "none" THEN {W} ELSE CallFun(funs[k], W) : W \in Ws})

\* a barrel that no cell holds any more is garbage
Collect(W) ==
    LET held == {en[2] : en \in W.type_locs}
                    \cup UNION {Range(W.cells[p]) : p \in DOMAIN W.cells}
        keep == {i \in DOMAIN W.ents : W.ents[i].kind # "Barrel" \/ i \in held}
    IN  [W EXCEPT !.ents = [i \in keep |-> W.ents[i]]]

\* ------------------------------------------------------ engine.py: Palette
Prototype(entity_type, orientation) ==
    [entity_type |-> entity_type, orientation |-> orientation]

\* Palette.find_match, as a 1-based position, 0 for Python's -1
find_match(items, proto) ==
    IF \E k \in DOMAIN items : items[k][1] = proto
    THEN Min({k \in DOMAIN items : items[k][1] = proto})
    ELSE 0

\* a variant of Palette.remove that keeps an entry whose count reached zero
PaletteRemoveKeepsZero(items, proto) ==
    LET k == find_match(items, proto)
    IN  IF k = 0 THEN [items |-> items, error |-> "ValueError"]
        ELSE [items |-> [items EXCEPT ![k] = <<proto, items[k][2] - 1>>],
              error |-> "none"]

\* Palette.remove: [items, error]
PaletteRemove(items, proto) ==
    LET k == find_match(items, proto)
    IN  IF k = 0 THEN [items |-> items, error |-> "ValueError"]
        ELSE IF items[k][2] - 1 = 0
        THEN [items |-> SubSeq(items, 1, k - 1) \o SubSeq(items, k + 1, Len(items)),
              error |-> "none"]
        ELSE [items |-> [items EXCEPT ![k] = <<proto, items[k][2] - 1>>],
              error |-> "none"]

\* Palette.add: with no match the entry is appended with count 0 and
\* items[-1] is incremented
PaletteAdd(items, proto) ==
    LET k == find_match(items, proto)
        grown == IF k = 0 THEN Append(items, <<proto, 0>>) ELSE items
        i == IF k = 0 THEN Len(grown) ELSE k
    IN  [grown EXCEPT ![i] = <<proto, grown[i][2] + 1>>]

\* ------------------------------------------------------------------ levels
\* a (Board, Palette) pair as Board.__init__ and Palette.__init__ build it
MakeState(cells, ents, items) ==
    [cells |-> cells,
     type_locs |-> UNION {{<<p, cells[p][k]>> : k \in DOMAIN cells[p]} :
                              p \in DOMAIN cells},
     ents |-> ents,
     next_id |-> Cardinality(DOMAIN ents) + 1,
     items |-> items]

At(x, y) == <<x, y>>

\* the end-to-end level: a BLUE tile under an extractor facing EAST whose
\* period was set to 1, and a Target(BLUE, 1) three cells to the east
LevelE2E ==
    MakeState(
        [p \in {At(0, 0), At(3, 0)} |-> IF p = At(0, 0) THEN <<1, 2>> ELSE <<3>>],
        [i \in 1..3 |->
            CASE i = 1 -> ResourceTile("BLUE")
              [] i = 2 -> [ResourceExtractor("EAST") EXCEPT !.period = 1]
              [] i = 3 -> Target("BLUE", 1)],
        <<>>)

\* a level without any Target: the barrels of a RED extractor (set to period
\* 2, phase 2) pile up in front of a Barrier
LevelNoTargets ==
    MakeState(
        [p \in {At(0, 0), At(2, 0)} |-> IF p = At(0, 0) THEN <<1, 2>> ELSE <<3>>],
        [i \in 1..3 |->
            CASE i = 1 -> ResourceTile("RED")
              [] i = 2 -> [ResourceExtractor("EAST") EXCEPT !.period = 2, !.phase = 2]
              [] i = 3 -> Barrier],
        << <<Prototype("Boostpad", "default"), 1>> >>)

\* two extractors facing each other, a Boostpad between them that sends the
\* merged barrel to a Target of the mixed colour (as test_board2 of
\* level_helpers.py)
LevelMix ==
    MakeState(
        [p \in {At(0 - 1, 0), At(1, 0), At(0, 0), At(0, 1)} |->
            CASE p = At(0 - 1, 0) -> <<1, 2>>
              [] p = At(1, 0)     -> <<3, 4>>
              [] p = At(0, 0)     -> <<5>>
              [] p = At(0, 1)     -> <<6>>],
        [i \in 1..6 |->
            CASE i = 1 -> ResourceTile("RED")
              [] i = 2 -> ResourceExtractor("EAST")
              [] i = 3 -> ResourceTile("BLUE")
              [] i = 4 -> ResourceExtractor("WEST")
              [] i = 5 -> Boostpad("SOUTH")
              [] i = 6 -> Target("VIOLET", 1)],
        << <<Prototype("ResourceExtractor", "default"), 2>>,
           <<Prototype("Boostpad", "default"), 1>> >>)

\* three Barrels around the cell (0,0), each moving towards it: RED, YELLOW
\* and ORANGE arrive in (0,0) in the same tick
LevelCross ==
    MakeState(
        [p \in {At(0 - 1, 0), At(1, 0), At(0, 0 - 1)} |->
            CASE p = At(0 - 1, 0) -> <<1>>
              [] p = At(1, 0)     -> <<2>>
              [] p = At(0, 0 - 1) -> <<3>>],
        [i \in 1..3 |->
            CASE i = 1 -> Barrel("RED", "EAST")
              [] i = 2 -> Barrel("YELLOW", "WEST")
              [] i = 3 -> Barrel("ORANGE", "SOUTH")],
        <<>>)

\* a Sensor wired to a Piston: the sensor at (3,0) watches (2,0), the piston
\* at (2,1) pushes what stands there north, towards a Target
LevelWired ==
    MakeState(
        [p \in {At(0, 0), At(3, 0), At(2, 1), At(2, 0 - 2)} |->
            CASE p = At(0, 0)     -> <<1, 2>>
              [] p = At(3, 0)     -> <<3>>
              [] p = At(2, 1)     -> <<4>>
              [] p = At(2, 0 - 2) -> <<5>>],
        [i \in 1..5 |->
            CASE i = 1 -> ResourceTile("BLUE")
              [] i = 2 -> ResourceExtractor("EAST")
              [] i = 3 -> [Wirable("Sensor", "WEST") EXCEPT
                              !.wirings[1] = [inp |-> FALSE, other |-> 4, j |-> 0]]
              [] i = 4 -> [Wirable("Piston", "NORTH") EXCEPT
                              !.wirings[1] = [inp |-> TRUE, other |-> 3, j |-> 0]]
              [] i = 5 -> Target("BLUE", 1)],
        <<>>)

\* the bench of the wiring editor: a Sensor, an AND gate, a Piston and a NOT
\* gate, nothing connected
LevelBench ==
    MakeState(
        [p \in {At(0, 0), At(1, 0), At(2, 0), At(3, 0)} |-> <<p[1] + 1>>],
        [i \in 1..4 |->
            CASE i = 1 -> Wirable("Sensor", "NORTH")
              [] i = 2 -> Wirable("AndGate", "NONE")
              [] i = 3 -> Wirable("Piston", "NORTH")
              [] i = 4 -> Wirable("NotGate", "NONE")],
        <<>>)

Scenarios == {"E2E", "NoTargets", "Mix", "Wired", "Cross"}

LevelState(sc) ==
    CASE sc = "E2E"       -> LevelE2E
      [] sc = "NoTargets" -> LevelNoTargets
      [] sc = "Mix"       -> LevelMix
      [] sc = "Wired"     -> LevelWired
      [] sc = "Cross"     -> LevelCross
      [] sc = "Bench"     -> LevelBench

\* ------------------------------------------- entities.py: editing the wiring
\* the position in a list of the Python index i (negative indices count from
\* the end); 0 when the index is out of range
ListPos(list, i) ==
    LET p == IF i < 0 THEN Len(list) + i ELSE i
    IN  IF p < 0 \/ p >= Len(list) THEN 0 ELSE p + 1

\* list.pop(i) and list.insert(i, x) at a position
ListPop(list, pos) == SubSeq(list, 1, pos - 1) \o SubSeq(list, pos + 1, Len(list))

ListInsert(list, pos, x) == SubSeq(list, 1, pos - 1) \o <<x>> \o SubSeq(list, pos, Len(list))

\* the wiring operations work on the entity map E and leave [ents, error]
Done(E) == [ents |-> E, error |-> "none"]

Fail(E, exc) == [ents |-> E, error |-> exc]

\* a variant of make_connection that compares the port types after the
\* assignments
make_connection_late_check(E, a, i, b, j) ==
    LET pa == ListPos(E[a].wirings, i)
        pb == ListPos(E[b].wirings, j)
    IN  IF pa = 0 \/ pb = 0 THEN Fail(E, "IndexError")
        ELSE LET E1 == [E EXCEPT ![a].wirings[pa].other = b, ![a].wirings[pa].j = j]
                 E2 == [E1 EXCEPT ![b].wirings[pb].other = a, ![b].wirings[pb].j = i]
             IN  IF E[a].wirings[pa].inp = E[b].wirings[pb].inp
                 THEN Fail(E2, "ValueError")
                 ELSE Done(E2)

\* Wirable.make_connection: the port types are compared before anything is
\* assigned
make_connection(E, a, i, b, j) ==
    LET pa == ListPos(E[a].wirings, i)
        pb == ListPos(E[b].wirings, j)
    IN  IF pa = 0 \/ pb = 0 THEN Fail(E, "IndexError")
        ELSE IF E[a].wirings[pa].inp = E[b].wirings[pb].inp THEN Fail(E, "ValueError")
        ELSE LET E1 == [E EXCEPT ![a].wirings[pa].other = b, ![a].wirings[pa].j = j]
             IN  Done([E1 EXCEPT ![b].wirings[pb].other = a, ![b].wirings[pb].j = i])

\* Wirable.break_connection: the port the record names on the other side is
\* cleared first, then the port itself
break_connection(E, a, i) ==
    LET pa == ListPos(E[a].wirings, i)
    IN  IF pa = 0 THEN Fail(E, "IndexError")
        ELSE LET wi == E[a].wirings[pa]
             IN  IF wi.other = NoEntity THEN Done(E)
                 ELSE LET pb == ListPos(E[wi.other].wirings, wi.j)
                      IN  IF pb = 0 THEN Fail(E, "IndexError")
                          ELSE LET E1 == [E EXCEPT ![wi.other].wirings[pb].other = NoEntity,
                                                   ![wi.other].wirings[pb].j = NoIndex]
                               IN  Done([E1 EXCEPT ![a].wirings[pa].other = NoEntity,
                                                   ![a].wirings[pa].j = NoIndex])

RECURSIVE BreakAllLoop(_, _, _)
BreakAllLoop(R, a, i) ==
    IF R.error # "none" \/ i >= Len(R.ents[a].wirings) THEN R
    ELSE BreakAllLoop(break_connection(R.ents, a, i), a, i + 1)

\* Wirable.break_all_connections
break_all_connections(E, a) == BreakAllLoop(Done(E), a, 0)

\* ------------------------------------------- widgets.py: WiringContainer
\* the tail shared by remove_input and remove_output: break the connection of
\* port i, then pop the port and its state
PopPort(E, a, i) ==
    LET R   == break_connection(E, a, i)
        pos == ListPos(E[a].wirings, i)
    IN  IF R.error # "none" THEN R
        ELSE Done([R.ents EXCEPT ![a].wirings = ListPop(@, pos),
                                 ![a].port_states = ListPop(@, pos)])

\* WiringContainer.remove_input
remove_input(E, a) ==
    IF E[a].num_inputs <= min_num_inputs(E[a].kind) THEN Done(E)
    ELSE LET R == PopPort(E, a, E[a].num_inputs - 1)
         IN  IF R.error # "none" THEN R
             ELSE Done([R.ents EXCEPT ![a].num_inputs = @ - 1])

\* WiringContainer.add_input: the new port goes in at index num_inputs, in
\* front of the output ports
add_input(E, a) ==
    IF E[a].num_inputs >= max_num_inputs(E[a].kind) THEN Done(E)
    ELSE Done([E EXCEPT
            ![a].wirings = ListInsert(@, E[a].num_inputs + 1, FreePort(TRUE)),
            ![a].port_states = ListInsert(@, E[a].num_inputs + 1, "None"),
            ![a].num_inputs = @ + 1])

\* WiringContainer.remove_output
remove_output(E, a) ==
    IF E[a].num_outputs <= min_num_outputs(E[a].kind) THEN Done(E)
    ELSE LET R == PopPort(E, a, 0 - 1)
         IN  IF R.error # "none" THEN R
             ELSE Done([R.ents EXCEPT ![a].num_outputs = @ - 1])

\* WiringContainer.add_output
add_output(E, a) ==
    IF E[a].num_outputs >= max_num_outputs(E[a].kind) THEN Done(E)
    ELSE Done([E EXCEPT
            ![a].wirings = Append(@, FreePort(FALSE)),
            ![a].port_states = Append(@, "None"),
            ![a].num_outputs = @ + 1])

\* Wirable.available_inputs and available_outputs, as Python indices
available_inputs(e) ==
    {k - 1 : k \in {n \in DOMAIN e.wirings :
                        e.wirings[n].inp /\ e.wirings[n].other = NoEntity}}

available_outputs(e) ==
    {k - 1 : k \in {n \in DOMAIN e.wirings :
                        ~e.wirings[n].inp /\ e.wirings[n].other = NoEntity}}

\* ------------------------------------------------------------ the circuits
\* a.make_connection(i, b, j) while a level is built
Connect(E, a, i, b, j) == make_connection(E, a, i, b, j).ents

\* two Sensors (two outputs each) feeding a NOT, an AND and an OR gate, and a
\* Piston on the AND gate: S1 -> NOT -> AND.0, S2 -> AND.1, S1 -> OR.0,
\* S2 -> OR.1, AND -> Piston; the output of the OR gate is left open
AcyclicEnts ==
    LET E0 == [i \in 1..6 |->
                  CASE i = 1 -> Wirable("Sensor", "EAST")
                    [] i = 2 -> Wirable("Sensor", "EAST")
                    [] i = 3 -> Wirable("NotGate", "NONE")
                    [] i = 4 -> Wirable("AndGate", "NONE")
                    [] i = 5 -> Wirable("OrGate", "NONE")
                    [] i = 6 -> Wirable("Piston", "NORTH")]
        E1 == add_output(add_output(E0, 1).ents, 2).ents
        E2 == Connect(E1, 1, 0, 3, 0)
        E3 == Connect(E2, 1, 1, 5, 0)
        E4 == Connect(E3, 2, 0, 4, 1)
        E5 == Connect(E4, 2, 1, 5, 1)
        E6 == Connect(E5, 3, 1, 4, 0)
    IN  Connect(E6, 4, 2, 6, 0)

LevelAcyclic ==
    MakeState(
        [p \in {At(0, 0), At(0, 2), At(5, 0), At(6, 0), At(7, 0), At(8, 0)} |->
            CASE p = At(0, 0) -> <<1>>
              [] p = At(0, 2) -> <<2>>
              [] p = At(5, 0) -> <<3>>
              [] p = At(6, 0) -> <<4>>
              [] p = At(7, 0) -> <<5>>
              [] p = At(8, 0) -> <<6>>],
        AcyclicEnts,
        <<>>)

\* two NOT gates in a ring, and an AND gate whose output feeds its own first
\* input
RingEnts ==
    LET E0 == [i \in 1..3 |->
                  CASE i = 1 -> Wirable("NotGate", "NONE")
                    [] i = 2 -> Wirable("NotGate", "NONE")
                    [] i = 3 -> Wirable("AndGate", "NONE")]
        E1 == Connect(E0, 1, 1, 2, 0)
        E2 == Connect(E1, 2, 1, 1, 0)
    IN  Connect(E2, 3, 2, 3, 0)

LevelRing ==
    MakeState(
        [p \in {At(5, 0), At(6, 0), At(7, 0)} |-> <<p[1] - 4>>],
        RingEnts,
        <<>>)

\* a PressurePlate wired to a Piston, and a Sensor that watches the plate
PlateEnts ==
    LET E0 == [i \in 1..3 |->
                  CASE i = 1 -> Wirable("PressurePlate", "NONE")
                    [] i = 2 -> Wirable("Piston", "NORTH")
                    [] i = 3 -> Wirable("Sensor", "EAST")]
    IN  Connect(E0, 1, 0, 2, 0)

LevelPlate ==
    MakeState(
        [p \in {At(1, 0), At(3, 0), At(0, 0)} |->
            CASE p = At(1, 0) -> <<1>>
              [] p = At(3, 0) -> <<2>>
              [] p = At(0, 0) -> <<3>>],
        PlateEnts,
        <<>>)

\* a Sensor at (0,0) that watches (1,0) and feeds two Pistons: one at (1,1)
\* facing NORTH, which pushes from (1,0) into (1,-1), and one at (0,-1) facing
\* EAST, which pushes from (1,-1) into (2,-1); a third Piston, not connected,
\* faces a Barrel; a Boostpad lies in (1,0) and a Barrier stands in (2,-1)
PressEnts ==
    LET E0 == [i \in 1..7 |->
                  CASE i = 1 -> Wirable("Sensor", "EAST")
                    [] i = 2 -> Wirable("Piston", "NORTH")
                    [] i = 3 -> Wirable("Piston", "EAST")
                    [] i = 4 -> Wirable("Piston", "EAST")
                    [] i = 5 -> Barrel("BLUE", "NONE")
                    [] i = 6 -> Boostpad("WEST")
                    [] i = 7 -> Barrier]
        E1 == add_output(E0, 1).ents
        E2 == Connect(E1, 1, 0, 2, 0)
    IN  Connect(E2, 1, 1, 3, 0)

LevelPress ==
    MakeState(
        [p \in {At(0, 0), At(1, 1), At(0, 0 - 1), At(5, 5), At(6, 5), At(1, 0),
                 At(2, 0 - 1)} |->
            CASE p = At(0, 0)     -> <<1>>
              [] p = At(1, 1)     -> <<2>>
              [] p = At(0, 0 - 1) -> <<3>>
              [] p = At(5, 5)     -> <<4>>
              [] p = At(6, 5)     -> <<5>>
              [] p = At(1, 0)     -> <<6>>
              [] p = At(2, 0 - 1) -> <<7>>],
        PressEnts,
        <<>>)

\* the cells the two connected Pistons face
PressCells == {At(1, 0), At(1, 0 - 1)}

Circuits == {"Acyclic", "Ring", "Plate"}

\* the cells the Sensors watch and the PressurePlate lies in
CircuitCells == {At(1, 0), At(1, 2)}

\* the level with a RED Barrel in each of the cells: the Board is built with
\* the Barrels in it
RECURSIVE WithBarrels(_, _, _)
WithBarrels(state, cells, k) ==
    IF k > Len(cells) THEN state
    ELSE LET id == state.next_id
             W1 == [state EXCEPT
                       !.ents = [i \in (DOMAIN state.ents) \cup {id} |->
                                    IF i = id THEN Barrel("RED", "NONE")
                                    ELSE state.ents[i]],
                       !.next_id = id + 1]
         IN  WithBarrels(BoardInsert(W1, cells[k], <<id>>), cells, k + 1)

CircuitState(sc) ==
    CASE sc = "Acyclic" -> LevelAcyclic
      [] sc = "Ring"    -> LevelRing
      [] sc = "Plate"   -> LevelPlate

\* ------------------------------------------------ the boards of the unit calls
\* two Barrels in one cell and a Barrier in the next; one Boostpad in the
\* palette
LevelCrate ==
    MakeState(
        [p \in {At(0, 0), At(1, 0)} |->
            IF p = At(0, 0) THEN <<1, 2>> ELSE <<3>>],
        [i \in 1..3 |->
            CASE i = 1 -> Barrel("RED", "NONE")
              [] i = 2 -> Barrel("BLUE", "NONE")
              [] i = 3 -> Barrier],
        << <<Prototype("Boostpad", "default"), 1>> >>)

\* the yard: a Barrel at (0,0) and one at (1,0), with the velocities v1 and
\* v2, a Barrier east of them at (2,0) and a Boostpad south of the second
LevelYard(v1, v2) ==
    MakeState(
        [p \in {At(0, 0), At(1, 0), At(2, 0), At(1, 1)} |->
            CASE p = At(0, 0) -> <<1>>
              [] p = At(1, 0) -> <<2>>
              [] p = At(2, 0) -> <<3>>
              [] p = At(1, 1) -> <<4>>],
        [i \in 1..4 |->
            CASE i = 1 -> Barrel("RED", v1)
              [] i = 2 -> Barrel("BLUE", v2)
              [] i = 3 -> Barrier
              [] i = 4 -> Boostpad("NORTH")],
        <<>>)

\* the mine: at (0,0) an extractor under which two ResourceTiles are stacked,
\* at (2,0) an extractor that stands before its only tile in the cell, and at
\* (0,2) an eligible extractor without a tile
LevelMine(c1, c2, o, period, phase) ==
    MakeState(
        [p \in {At(0, 0), At(2, 0), At(0, 2)} |->
            CASE p = At(0, 0) -> <<1, 2, 3>>
              [] p = At(2, 0) -> <<4, 5>>
              [] p = At(0, 2) -> <<6>>],
        [i \in 1..6 |->
            CASE i = 1 -> ResourceTile(c1)
              [] i = 2 -> ResourceTile(c2)
              [] i = 3 -> [ResourceExtractor(o) EXCEPT !.period = period, !.phase = phase]
              [] i = 4 -> [ResourceExtractor(o) EXCEPT !.period = 1, !.phase = 1]
              [] i = 5 -> ResourceTile(c2)
              [] i = 6 -> [ResourceExtractor(o) EXCEPT !.period = 1, !.phase = 1]],
        <<>>)

\* the sink: a Target(tc, n) at (0,0) among Barrels of the colours cs, the
\* first of them before the Target in the cell, and a Barrel at (1,0)
LevelSink(cs, tc, n) ==
    MakeState(
        [p \in {At(0, 0), At(1, 0)} |->
            IF p = At(0, 0)
            THEN <<2, 1>> \o [k \in 1..(Len(cs) - 1) |-> k + 2]
            ELSE <<Len(cs) + 2>>],
        [i \in 1..(Len(cs) + 2) |->
            CASE i = 1           -> Target(tc, n)
              [] i = Len(cs) + 2 -> Barrel(tc, "NONE")
              [] OTHER           -> Barrel(cs[i - 1], "NONE")],
        <<>>)

\* the lists of colours of the Barrels of the cell that is merged
ColorLists == UNION {[1..n -> Colors] : n \in 2..MaxBarrels}

\* cell (0, 0) holds a Barrel for each colour of cs, in that order, with a
\* Boostpad after the first of them; cell (1, 0) holds one Barrel and a
\* Barrier
LevelMerge(cs) ==
    LET n == Len(cs)
    IN  MakeState(
            [p \in {At(0, 0), At(1, 0)} |->
                IF p = At(0, 0) THEN <<1, n + 1>> \o [k \in 1..(n - 1) |-> k + 1]
                ELSE <<n + 2, n + 3>>],
            [i \in 1..(n + 3) |->
                CASE i <= n    -> Barrel(cs[i], "NONE")
                  [] i = n + 1 -> Boostpad("EAST")
                  [] i = n + 2 -> Barrel("BLUE", "NONE")
                  [] i = n + 3 -> Barrier],
            <<>>)

\* ----------------------------------------------------------------- the state
VARIABLES
    store,            \* slot -> the (Board, Palette) value of the object pair
    board,            \* the slot Level.board and Level.palette refer to
    starting_state,   \* the slot Level.starting_state refers to
    saved_state,      \* the slot Level.saved_state refers to, 0 before it is set
    step_count,       \* Level.step_count
    current_substep,  \* Level.current_substep
    won,              \* Level.won
    error,            \* "none", or the exception that ended the program
    scenario,         \* the level the Level was constructed over
    tick_log,         \* history: the phases called in the current tick
    spawned,          \* history: the extractors that spawned in the current tick
    bodies,           \* history: the ports whose resolution body ran in the last
                      \*          substep or resolve_wiring_network call
    saved_copy,       \* history: the value of the live pair at the last save_state
    since_save,       \* history: what happened since the last save_state
    call,             \* history: the last operation called and its arguments
    substeps_run,     \* number of substep calls so far
    ops,              \* number of save / load / reset calls and of edits so far
    wire_ops,         \* number of wiring-editor operations so far
    runner            \* the fields of the LevelRunner that plays the level

vars ==
    <<store, board, starting_state, saved_state, step_count, current_substep, won,
      error, scenario, tick_log, spawned, bodies, saved_copy, since_save, call,
      substeps_run, ops, wire_ops, runner>>

Slots == 1..3

\* a variant of deepcopy that hands back the object it was given
deepcopy_alias(src, live) == src

\* deepcopy: the reference of the copy, an object none of the live references
\* names
deepcopy(src, live) == Min(Slots \ live)

\* how many times each port is in the list of the resolution bodies that ran
Tally(seq) ==
    [x \in Range(seq) |-> Cardinality({k \in DOMAIN seq : seq[k] = x})]

\* the slots some reference of the Level still names
Live(b, st, sv) == {b, st} \cup (IF sv = 0 THEN {} ELSE {sv})

Call(op, a, i, b, j) == [op |-> op, a |-> a, i |-> i, b |-> b, j |-> j]

Op(op) == Call(op, NoEntity, NoIndex, NoEntity, NoIndex)

\* the working state of a call on the live pair
Working ==
    [cells |-> store[board].cells, type_locs |-> store[board].type_locs,
     ents |-> store[board].ents, next_id |-> store[board].next_id,
     items |-> store[board].items,
     step_count |-> step_count, won |-> won, error |-> "none",
     log |-> IF current_substep = 0 THEN <<>> ELSE tick_log,
     spawned |-> IF current_substep = 0 THEN <<>> ELSE spawned,
     bodies |-> <<>>, depth |-> 0]

StateOf(W) ==
    [cells |-> W.cells, type_locs |-> W.type_locs, ents |-> W.ents,
     next_id |-> W.next_id, items |-> W.items]

\* --------------------------------------------- main.py: LevelRunner, its fields
\* constants.py
SHELF_HEIGHT == 100

SHELF_ANIMATION_SPEED == 15

EDITOR_WIDTH == 250

EDITOR_ANIMATION_SPEED == 30

PALETTE_ITEM_SIZE == 64

SHELF_ICON_SIZE == 48

\* button_down tells whether the left mouse button is held down, instances
\* are the entities made from palette prototypes.
\* Python None where the runner holds an entity reference; a reference is
\* <<slot, id>> for an entity of the Board object in that slot and <<0, k>> for
\* the k-th instance that was made from a palette prototype and has not been
\* inserted into a Board
None == <<0, 0>>

\* LevelRunner.reset_level, and Level.entity_copy_memo, which save_state sets
reset_level ==
    [edit_mode |-> TRUE, paused |-> FALSE,
     shelf_state |-> "open", shelf_height_onscreen |-> SHELF_HEIGHT,
     editor_state |-> "closed", editor_state_queue |-> <<>>,
     editor_width_onscreen |-> 0,
     held_entity |-> None, selected_entity |-> None, editing_entity |-> None,
     pressed_icon |-> "None",
     button_down |-> FALSE,
     instances |-> <<>>,
     entity_copy_memo |-> [from |-> 0, to |-> 0, ids |-> {}]]

\* Level.__init__ over a (Board, Palette) pair: the starting state is a deep
\* copy
LevelInitOver(sc, state) ==
    /\ scenario = sc
    /\ board = 1
    /\ starting_state = deepcopy(1, {1})
    /\ store = [s \in {1, starting_state} |-> state]
    /\ saved_state = 0
    /\ step_count = 0
    /\ won = FALSE
    /\ current_substep = 0
    /\ error = "none"
    /\ tick_log = <<>>
    /\ spawned = <<>>
    /\ bodies = Tally(<<>>)
    /\ saved_copy = state
    /\ since_save = "none"
    /\ call = Op("init")
    /\ substeps_run = 0
    /\ ops = 0
    /\ wire_ops = 0
    /\ runner = reset_level

LevelInit(sc) == LevelInitOver(sc, LevelState(sc))

Init == \E sc \in Scenarios : LevelInit(sc)

\* what an operation other than save_state, load_saved_state and substep does
\* to the history of the last save
Stale == IF since_save = "none" THEN "none" ELSE "stale"

\* Level.substep
substep ==
    /\ \E W \in RunFuns(substeps[current_substep + 1], 1, {Working}) :
        /\ store' = [store EXCEPT ![board] = StateOf(Collect(W))]
        /\ won' = W.won
        /\ error' = W.error
        /\ tick_log' = W.log
        /\ spawned' = W.spawned
        /\ bodies' = Tally(W.bodies)
        /\ IF W.error # "none"
           THEN UNCHANGED <<current_substep, step_count>>
           ELSE IF current_substep + 1 >= Len(substeps)
           THEN current_substep' = 0 /\ step_count' = step_count + 1
           ELSE current_substep' = current_substep + 1 /\ UNCHANGED step_count
    /\ since_save' = (IF since_save \in {"saved", "ran"} THEN "ran" ELSE Stale)
    /\ substeps_run' = substeps_run + 1

\* the caller runs one substep
Substep ==
    /\ error = "none"
    /\ substeps_run < MaxSubsteps
    /\ substep
    /\ call' = Op("substep")
    /\ UNCHANGED runner
    /\ UNCHANGED <<board, starting_state, saved_state, scenario, saved_copy,
                   ops, wire_ops>>

\* Level.save_state
save_state ==
    /\ LET n == deepcopy(board, {board, starting_state})
       IN  /\ saved_state' = n
           /\ store' = [s \in {board, starting_state, n} |->
                           IF s = n THEN store[board] ELSE store[s]]
    /\ saved_copy' = store[board]
    /\ since_save' = "saved"

\* the caller saves the state
SaveState ==
    /\ error = "none"
    /\ ops < MaxOps
    /\ save_state
    /\ call' = Op("save_state")
    /\ UNCHANGED bodies
    /\ ops' = ops + 1
    /\ UNCHANGED runner
    /\ UNCHANGED <<board, starting_state, step_count, current_substep, won, error,
                   scenario, tick_log, spawned, substeps_run, wire_ops>>

\* Level.load_saved_state once the attribute saved_state exists
load_saved_state ==
    /\ board' = saved_state
    /\ store' = [s \in {saved_state, starting_state} |-> store[s]]
    /\ step_count' = 0
    /\ current_substep' = 0
    /\ won' = FALSE
    /\ tick_log' = <<>>
    /\ spawned' = <<>>
    /\ since_save' = (CASE since_save = "saved" -> "restored_saved"
                        [] since_save = "ran"   -> "restored_ran"
                        [] OTHER                -> Stale)

\* the caller loads the saved state; the attribute saved_state does not exist
\* before the first save_state
LoadSavedState ==
    /\ error = "none"
    /\ ops < MaxOps
    /\ IF saved_state = 0
       THEN /\ error' = "AttributeError"
            /\ since_save' = Stale
            /\ UNCHANGED <<store, board, step_count, current_substep, won,
                           tick_log, spawned>>
       ELSE /\ load_saved_state
            /\ UNCHANGED error
    /\ call' = Op("load_saved_state")
    /\ UNCHANGED bodies
    /\ ops' = ops + 1
    /\ UNCHANGED runner
    /\ UNCHANGED <<starting_state, saved_state, scenario, saved_copy, substeps_run,
                   wire_ops>>

\* Level.reset
Reset ==
    /\ error = "none"
    /\ ops < MaxOps
    /\ board' = starting_state
    /\ store' = [s \in Live(starting_state, starting_state, saved_state) |-> store[s]]
    /\ step_count' = 0
    /\ current_substep' = 0
    /\ won' = FALSE
    /\ tick_log' = <<>>
    /\ spawned' = <<>>
    /\ since_save' = Stale
    /\ call' = Op("reset")
    /\ UNCHANGED bodies
    /\ ops' = ops + 1
    /\ UNCHANGED runner
    /\ UNCHANGED <<starting_state, saved_state, error, scenario, saved_copy,
                   substeps_run, wire_ops>>

\* the entities and the cell of the board edits
EditEntities == {Barrier}

EditCells == {At(1, 0)}

\* the caller places a new entity: level.board.insert(x, y, entity)
InsertEdit ==
    /\ error = "none"
    /\ ops < MaxOps
    /\ \E pos \in EditCells, rec \in EditEntities :
        LET W1 == NewEntity(Working, rec)
        IN  store' = [store EXCEPT
                         ![board] = StateOf(BoardInsert(W1, pos, <<Working.next_id>>))]
    /\ since_save' = Stale
    /\ call' = Op("insert")
    /\ UNCHANGED bodies
    /\ ops' = ops + 1
    /\ UNCHANGED runner
    /\ UNCHANGED <<board, starting_state, saved_state, step_count, current_substep,
                   won, error, scenario, tick_log, spawned, saved_copy, substeps_run,
                   wire_ops>>

\* the caller takes an item out of the palette: level.palette.remove(proto)
PaletteRemoveEdit ==
    /\ error = "none"
    /\ ops < MaxOps
    /\ LET R == PaletteRemove(store[board].items, Prototype("Boostpad", "default"))
       IN  /\ store' = [store EXCEPT ![board].items = R.items]
           /\ error' = R.error
    /\ since_save' = Stale
    /\ call' = Op("palette_remove")
    /\ UNCHANGED bodies
    /\ ops' = ops + 1
    /\ UNCHANGED runner
    /\ UNCHANGED <<board, starting_state, saved_state, step_count, current_substep,
                   won, scenario, tick_log, spawned, saved_copy, substeps_run,
                   wire_ops>>

Next ==
    \/ Substep
    \/ SaveState
    \/ LoadSavedState
    \/ Reset
    \/ InsertEdit
    \/ PaletteRemoveEdit

Spec == Init /\ [][Next]_vars

\* ------------------------------------------------------- the wiring editor
WirableIds == {id \in DOMAIN store[board].ents : store[board].ents[id].kind \in WirableKinds}

PortsOf(id) == 0..(Len(store[board].ents[id].wirings) - 1)

FreePorts(id) ==
    available_inputs(store[board].ents[id]) \cup available_outputs(store[board].ents[id])

\* the effect of a wiring operation that left R
WireStep(R, c) ==
    /\ store' = [store EXCEPT ![board].ents = R.ents]
    /\ error' = R.error
    /\ call' = c
    /\ wire_ops' = wire_ops + 1
    /\ UNCHANGED bodies
    /\ since_save' = Stale
    /\ UNCHANGED runner
    /\ UNCHANGED <<board, starting_state, saved_state, step_count, current_substep,
                   won, scenario, tick_log, spawned, saved_copy, substeps_run, ops>>

\* a.make_connection(i, b, j) between two free ports of two entities
MakeConnection ==
    /\ error = "none"
    /\ wire_ops < MaxWireOps
    /\ \E a \in WirableIds, b \in WirableIds :
        /\ a # b
        /\ \E i \in FreePorts(a), j \in FreePorts(b) :
            WireStep(make_connection(store[board].ents, a, i, b, j),
                     Call("make_connection", a, i, b, j))

\* a.break_connection(i)
BreakConnection ==
    /\ error = "none"
    /\ wire_ops < MaxWireOps
    /\ \E a \in WirableIds : \E i \in PortsOf(a) :
        WireStep(break_connection(store[board].ents, a, i),
                 Call("break_connection", a, i, NoEntity, NoIndex))

\* a.break_all_connections()
BreakAllConnections ==
    /\ error = "none"
    /\ wire_ops < MaxWireOps
    /\ \E a \in WirableIds :
        WireStep(break_all_connections(store[board].ents, a),
                 Call("break_all_connections", a, NoIndex, NoEntity, NoIndex))

\* the buttons of the WiringContainer of entity a
AddInput ==
    /\ error = "none"
    /\ wire_ops < MaxWireOps
    /\ \E a \in WirableIds :
        WireStep(add_input(store[board].ents, a),
                 Call("add_input", a, NoIndex, NoEntity, NoIndex))

RemoveInput ==
    /\ error = "none"
    /\ wire_ops < MaxWireOps
    /\ \E a \in WirableIds :
        WireStep(remove_input(store[board].ents, a),
                 Call("remove_input", a, NoIndex, NoEntity, NoIndex))

AddOutput ==
    /\ error = "none"
    /\ wire_ops < MaxWireOps
    /\ \E a \in WirableIds :
        WireStep(add_output(store[board].ents, a),
                 Call("add_output", a, NoIndex, NoEntity, NoIndex))

RemoveOutput ==
    /\ error = "none"
    /\ wire_ops < MaxWireOps
    /\ \E a \in WirableIds :
        WireStep(remove_output(store[board].ents, a),
                 Call("remove_output", a, NoIndex, NoEntity, NoIndex))

InitWiring == LevelInit("Bench")

NextWiring ==
    \/ MakeConnection
    \/ BreakConnection
    \/ BreakAllConnections
    \/ AddInput
    \/ RemoveInput
    \/ AddOutput
    \/ RemoveOutput

SpecWiring == InitWiring /\ [][NextWiring]_vars

\* ------------------------------------------------- the phases, called one by one
\* the effect of a direct call that left W; pass is the list of the calls made
\* since the ports were last cleared
CircuitStep(W, op, pass) ==
    /\ store' = [store EXCEPT ![board] = StateOf(W)]
    /\ error' = W.error
    /\ bodies' = Tally(W.bodies)
    /\ tick_log' = pass
    /\ call' = Op(op)
    /\ ops' = ops + 1
    /\ since_save' = Stale
    /\ UNCHANGED runner
    /\ UNCHANGED <<board, starting_state, saved_state, step_count, current_substep,
                   won, scenario, spawned, saved_copy, substeps_run, wire_ops>>

\* the caller clears the ports of every Wirable with the two methods Wirable
\* has
ClearPorts ==
    /\ error = "none"
    /\ ops < MaxCalls
    /\ CircuitStep(ClearAllPorts(Working), "clear_ports", <<"clear_ports">>)

\* level.apply_sensors()
ApplySensors ==
    /\ error = "none"
    /\ ops < MaxCalls
    /\ \E W \in apply_sensors(Working) :
        CircuitStep(W, "apply_sensors", Append(tick_log, "apply_sensors"))

\* level.resolve_wiring_network()
ResolveWiringNetwork ==
    /\ error = "none"
    /\ ops < MaxCalls
    /\ \E W \in resolve_wiring_network(Working) :
        CircuitStep(W, "resolve_wiring_network",
                    Append(tick_log, "resolve_wiring_network"))

\* level.apply_pistons()
ApplyPistons ==
    /\ error = "none"
    /\ ops < MaxCalls
    /\ \E W \in apply_pistons(Working) :
        CircuitStep(W, "apply_pistons", Append(tick_log, "apply_pistons"))

InitCircuit ==
    \E sc \in Circuits, occupied \in SUBSET CircuitCells :
        LevelInitOver(sc, WithBarrels(CircuitState(sc), SetToSeq(occupied), 1))

NextCircuit ==
    \/ ClearPorts
    \/ ApplySensors
    \/ ResolveWiringNetwork

SpecCircuit == InitCircuit /\ [][NextCircuit]_vars

\* the same calls and apply_pistons on the level with the three Pistons, with
\* a RED Barrel in some of the faced cells
InitPiston ==
    \E occupied \in SUBSET PressCells :
        LevelInitOver("Press", WithBarrels(LevelPress, SetToSeq(occupied), 1))

NextPiston ==
    \/ ClearPorts
    \/ ApplySensors
    \/ ResolveWiringNetwork
    \/ ApplyPistons

SpecPiston == InitPiston /\ [][NextPiston]_vars

\* the boards of the wiring graphs: a Sensor that watches a Barrel, two NOT
\* gates and an OR gate; every input is left open or connected to an output
\* that no other input uses, the gate's own output included
NetInputs == {<<2, 0>>, <<3, 0>>, <<4, 0>>, <<4, 1>>}

NetOutputs == {<<1, 0>>, <<2, 1>>, <<3, 1>>, <<4, 2>>}

NetWirings ==
    {f \in [NetInputs -> NetOutputs \cup {<<NoEntity, NoIndex>>}] :
        \A p, q \in NetInputs :
            (p # q /\ f[p][1] # NoEntity) => f[p] # f[q]}

\* the make_connection calls that build the wiring f, input by input
RECURSIVE WireUp(_, _, _, _)
WireUp(E, f, inputs, k) ==
    IF k > Len(inputs) THEN E
    ELSE LET p == inputs[k]
         IN  WireUp(IF f[p][1] = NoEntity THEN E
                    ELSE Connect(E, f[p][1], f[p][2], p[1], p[2]),
                    f, inputs, k + 1)

LevelNet(f) ==
    MakeState(
        [p \in {At(0, 0), At(1, 0), At(5, 0), At(6, 0), At(7, 0)} |->
            CASE p = At(0, 0) -> <<1>>
              [] p = At(1, 0) -> <<5>>
              [] p = At(5, 0) -> <<2>>
              [] p = At(6, 0) -> <<3>>
              [] p = At(7, 0) -> <<4>>],
        WireUp([i \in 1..5 |->
                   CASE i = 1 -> Wirable("Sensor", "EAST")
                     [] i = 2 -> Wirable("NotGate", "NONE")
                     [] i = 3 -> Wirable("NotGate", "NONE")
                     [] i = 4 -> Wirable("OrGate", "NONE")
                     [] i = 5 -> Barrel("RED", "NONE")],
               f, SetToSeq(NetInputs), 1),
        <<>>)

InitNet == \E f \in NetWirings : LevelInitOver("Net", LevelNet(f))

NextNet ==
    \/ ClearPorts
    \/ ApplySensors
    \/ ResolveWiringNetwork

SpecNet == InitNet /\ [][NextNet]_vars

\* ------------------------------------------------------ the Board, called alone
BoardCells == {At(0, 0), At(1, 0), At(2, 0)}

\* the argument lists of Board.remove: one or two entities, the same entity
\* twice included
RemoveArgs ==
    LET ids == DOMAIN store[board].ents
    IN  {<<a>> : a \in ids} \cup {<<a, b>> : a \in ids, b \in ids}

\* the effect of a call on the Board that left W
BoardStep(W, c) ==
    /\ store' = [store EXCEPT ![board] = StateOf(W)]
    /\ error' = W.error
    /\ call' = c
    /\ ops' = ops + 1
    /\ since_save' = Stale
    /\ UNCHANGED runner
    /\ UNCHANGED <<board, starting_state, saved_state, step_count, current_substep,
                   won, scenario, tick_log, spawned, bodies, saved_copy,
                   substeps_run, wire_ops>>

\* board.insert(x, y, Barrel(YELLOW))
BoardInsertCall ==
    /\ error = "none"
    /\ ops < MaxBoardOps
    /\ \E pos \in BoardCells :
        LET W1 == NewEntity(Working, Barrel("YELLOW", "NONE"))
        IN  BoardStep(BoardInsert(W1, pos, <<Working.next_id>>),
                      Call("insert", <<Working.next_id>>, NoIndex, pos, NoIndex))

\* board.remove(x, y, *es)
BoardRemoveCall ==
    /\ error = "none"
    /\ ops < MaxBoardOps
    /\ \E pos \in BoardCells, es \in RemoveArgs :
        BoardStep(BoardRemove(Working, pos, es),
                  Call("remove", es, NoIndex, pos, NoIndex))

\* the prototypes the palette is called with
PaletteProtos == {Prototype("Boostpad", "default"), Prototype("Barrier", "default")}

\* the effect of a call on the Palette that left R
PaletteStep(R, c) ==
    /\ store' = [store EXCEPT ![board].items = R.items]
    /\ error' = R.error
    /\ call' = c
    /\ ops' = ops + 1
    /\ since_save' = Stale
    /\ UNCHANGED runner
    /\ UNCHANGED <<board, starting_state, saved_state, step_count, current_substep,
                   won, scenario, tick_log, spawned, bodies, saved_copy,
                   substeps_run, wire_ops>>

\* palette.remove(proto)
PaletteRemoveCall ==
    /\ error = "none"
    /\ ops < MaxBoardOps
    /\ \E proto \in PaletteProtos :
        PaletteStep(PaletteRemove(store[board].items, proto),
                    Call("palette_remove", proto, NoIndex, NoEntity, NoIndex))

\* palette.add(entity) for an entity of the prototype proto
PaletteAddCall ==
    /\ error = "none"
    /\ ops < MaxBoardOps
    /\ \E proto \in PaletteProtos :
        PaletteStep([items |-> PaletteAdd(store[board].items, proto), error |-> "none"],
                    Call("palette_add", proto, NoIndex, NoEntity, NoIndex))

InitBoard == LevelInitOver("Crate", LevelCrate)

NextBoard ==
    \/ BoardInsertCall
    \/ BoardRemoveCall
    \/ PaletteRemoveCall
    \/ PaletteAddCall

SpecBoard == InitBoard /\ [][NextBoard]_vars

\* board.insert(x, y, e) of an entity that exists already, on the board or off
\* it
BoardInsertAgain ==
    /\ error = "none"
    /\ ops < MaxBoardOps
    /\ \E pos \in BoardCells, e \in DOMAIN store[board].ents :
        BoardStep(BoardInsert(Working, pos, <<e>>),
                  Call("insert", <<e>>, NoIndex, pos, NoIndex))

InitIndex == LevelInitOver("Crate", LevelCrate)

NextIndex ==
    \/ BoardInsertCall
    \/ BoardInsertAgain
    \/ BoardRemoveCall

SpecIndex == InitIndex /\ [][NextIndex]_vars

\* ------------------------------------------------- the merge phase, called alone
\* level.apply_merges()
ApplyMerges ==
    /\ error = "none"
    /\ \E W \in apply_merges(Working) :
        /\ store' = [store EXCEPT ![board] = StateOf(W)]
        /\ error' = W.error
    /\ call' = Op("apply_merges")
    /\ since_save' = Stale
    /\ UNCHANGED runner
    /\ UNCHANGED <<board, starting_state, saved_state, step_count, current_substep,
                   won, scenario, tick_log, spawned, bodies, saved_copy,
                   substeps_run, ops, wire_ops>>

InitMerge == \E cs \in ColorLists : LevelInitOver("Merge", LevelMerge(cs))

NextMerge == ApplyMerges

SpecMerge == InitMerge /\ [][NextMerge]_vars

\* ------------------------------------------ single phases, each called alone
\* the effect of a phase that left W
PhaseStep(W, op) ==
    /\ store' = [store EXCEPT ![board] = StateOf(Collect(W))]
    /\ error' = W.error
    /\ spawned' = W.spawned
    /\ call' = Op(op)
    /\ ops' = ops + 1
    /\ since_save' = Stale
    /\ UNCHANGED runner
    /\ UNCHANGED <<board, starting_state, saved_state, step_count, current_substep,
                   won, scenario, tick_log, bodies, saved_copy, substeps_run,
                   wire_ops>>

\* level.apply_translations()
ApplyTranslations ==
    /\ error = "none"
    /\ ops < MaxPhaseCalls
    /\ \E W \in apply_translations(Working) : PhaseStep(W, "apply_translations")

\* level.apply_resource_extractors()
ApplyResourceExtractors ==
    /\ error = "none"
    /\ ops < MaxPhaseCalls
    /\ \E W \in apply_resource_extractors(Working) :
        PhaseStep(W, "apply_resource_extractors")

\* level.apply_targets()
ApplyTargets ==
    /\ error = "none"
    /\ ops < MaxPhaseCalls
    /\ \E W \in apply_targets(Working) : PhaseStep(W, "apply_targets")

\* the colours of the tiles, of the Barrels and of the Target of the boards
PhaseColors == {"RED", "BLUE"}

InitPhase ==
    \/ \E v1 \in Directions, v2 \in Directions :
            LevelInitOver("Yard", LevelYard(v1, v2))
    \/ \E c1 \in PhaseColors, c2 \in PhaseColors, o \in Directions \ {"NONE"},
            period \in 1..2 :
            \E phase \in 1..period :
                LevelInitOver("Mine", LevelMine(c1, c2, o, period, phase))
    \/ \E cs \in UNION {[1..n -> PhaseColors] : n \in 1..MaxSinkBarrels},
            tc \in PhaseColors, n \in 1..2 :
            LevelInitOver("Sink", LevelSink(cs, tc, n))

NextPhase ==
    \/ ApplyTranslations
    \/ ApplyResourceExtractors
    \/ ApplyTargets

SpecPhase == InitPhase /\ [][NextPhase]_vars

\* ------------------------------------- merges, rotations and translations
\* two Barrels that can meet: RED at (0,1) and BLUE at (1,0), with a Boostpad
\* facing EAST at (1,1)
LevelJunction(v1, v2) ==
    MakeState(
        [p \in {At(0, 1), At(1, 0), At(1, 1)} |->
            CASE p = At(0, 1) -> <<1>>
              [] p = At(1, 0) -> <<2>>
              [] p = At(1, 1) -> <<3>>],
        [i \in 1..3 |->
            CASE i = 1 -> Barrel("RED", v1)
              [] i = 2 -> Barrel("BLUE", v2)
              [] i = 3 -> Boostpad("EAST")],
        <<>>)

\* a direct call of the phase fun
FlowCall(fun) ==
    /\ error = "none"
    /\ ops < MaxFlowCalls
    /\ \E W \in CallFun(fun, Working) : PhaseStep(W, fun)

MergePhase == FlowCall("apply_merges")

RotationPhase == FlowCall("apply_rotations")

TranslationPhase == FlowCall("apply_translations")

InitFlow ==
    \E v1 \in Directions, v2 \in Directions :
        LevelInitOver("Junction", LevelJunction(v1, v2))

NextFlow ==
    \/ MergePhase
    \/ RotationPhase
    \/ TranslationPhase

SpecFlow == InitFlow /\ [][NextFlow]_vars

\* ------------------------------------- widgets.py: the editors of an extractor
\* SmallIntEditor.get_limits for the two editors of a ResourceExtractor: the
\* period editor has the limits (2, 5), the phase editor (1, "localvar:period")
get_limits(e, attr) ==
    IF attr = "period" THEN <<2, 5>> ELSE <<1, e.period>>

\* the numbers of the boxes SmallIntEditor.draw_onto lays out
Hitboxes(e, attr) == get_limits(e, attr)[1]..get_limits(e, attr)[2]

\* two ResourceExtractors as constructed, each over a ResourceTile
LevelWorkshop ==
    MakeState(
        [p \in {At(0, 0), At(2, 0)} |->
            IF p = At(0, 0) THEN <<1, 2>> ELSE <<3, 4>>],
        [i \in 1..4 |->
            CASE i = 1 -> ResourceTile("RED")
              [] i = 2 -> ResourceExtractor("EAST")
              [] i = 3 -> ResourceTile("BLUE")
              [] i = 4 -> ResourceExtractor("WEST")],
        <<>>)

Extractors == {2, 4}

\* SmallIntEditor.handle_click on the box of the number n of the editor of
\* attr, the editor drawn for the values the entity has
HandleClick(id, attr, n) ==
    /\ error = "none"
    /\ ops < MaxClicks
    /\ n \in Hitboxes(store[board].ents[id], attr)
    /\ store' = [store EXCEPT ![board].ents[id][attr] = n]
    /\ call' = Call(attr, id, n, NoEntity, NoIndex)
    /\ ops' = ops + 1
    /\ since_save' = Stale
    /\ UNCHANGED runner
    /\ UNCHANGED <<board, starting_state, saved_state, step_count, current_substep,
                   won, error, scenario, tick_log, spawned, bodies, saved_copy,
                   substeps_run, wire_ops>>

ClickPeriod == \E id \in Extractors, n \in 2..5 : HandleClick(id, "period", n)

ClickPhase == \E id \in Extractors, n \in 1..5 : HandleClick(id, "phase", n)

InitEditor == LevelInitOver("Workshop", LevelWorkshop)

NextEditor ==
    \/ ClickPeriod
    \/ ClickPhase

SpecEditor == InitEditor /\ [][NextEditor]_vars

\* ------------------------------------------- main.py: the LevelRunner at play
\* the level of the runner: a RED extractor that sends its barrels into a
\* BLUE Target, which absorbs them and is never satisfied, so the level is
\* never won and no modal is generated; the palette holds one Boostpad
LevelRunner ==
    MakeState(
        [p \in {At(0, 0), At(2, 0)} |-> IF p = At(0, 0) THEN <<1, 2>> ELSE <<3>>],
        [i \in 1..3 |->
            CASE i = 1 -> ResourceTile("RED")
              [] i = 2 -> ResourceExtractor("EAST")
              [] i = 3 -> Target("BLUE", 1)],
        << <<Prototype("Boostpad", "default"), 1>> >>)

\* the class defaults of Entity.locked and the class attribute Entity.editable
locked(kind) == kind \in {"Barrier", "ResourceTile", "Target"}

editable(kind) == kind \in {"ResourceExtractor", "Boostpad"} \cup WirableKinds

\* EntityPrototype.get_instance: the level's palette holds vanilla prototypes
get_instance(proto) ==
    IF proto.entity_type = "Boostpad" THEN Boostpad("NORTH")
    ELSE IF proto.entity_type = "ResourceExtractor" THEN ResourceExtractor("NORTH")
    ELSE Entity(proto.entity_type)

\* the object a reference of the runner names
Deref(r, ref) ==
    IF ref[1] = 0 THEN r.instances[ref[2]] ELSE store[ref[1]].ents[ref[2]]

\* LevelRunner.select_entity and deselect_entity
select_entity(r, ref) ==
    [r EXCEPT !.selected_entity = ref,
              !.editor_state_queue = Append(@, "opening")]

deselect_entity(r) ==
    [r EXCEPT !.selected_entity = None,
              !.editor_state_queue = Append(@, "closing")]

\* LevelRunner.handle_shelf_animation
handle_shelf_animation(r) ==
    CASE r.shelf_state = "closing" ->
            IF r.shelf_height_onscreen - SHELF_ANIMATION_SPEED <= 0
            THEN [r EXCEPT !.shelf_height_onscreen = 0, !.shelf_state = "closed"]
            ELSE [r EXCEPT !.shelf_height_onscreen = @ - SHELF_ANIMATION_SPEED]
      [] r.shelf_state = "opening" ->
            IF r.shelf_height_onscreen + SHELF_ANIMATION_SPEED >= SHELF_HEIGHT
            THEN [r EXCEPT !.shelf_height_onscreen = SHELF_HEIGHT,
                           !.shelf_state = "open"]
            ELSE [r EXCEPT !.shelf_height_onscreen = @ + SHELF_ANIMATION_SPEED]
      [] OTHER -> r

\* LevelRunner.handle_editor_animation
handle_editor_animation(r) ==
    CASE r.editor_state = "closing" ->
            IF r.editor_width_onscreen - EDITOR_ANIMATION_SPEED <= 0
            THEN [r EXCEPT !.editor_width_onscreen = 0, !.editor_state = "closed"]
            ELSE [r EXCEPT !.editor_width_onscreen = @ - EDITOR_ANIMATION_SPEED]
      [] r.editor_state = "opening" ->
            IF r.editor_width_onscreen + EDITOR_ANIMATION_SPEED >= EDITOR_WIDTH
            THEN [r EXCEPT !.editor_width_onscreen = EDITOR_WIDTH,
                           !.editor_state = "open"]
            ELSE [r EXCEPT !.editor_width_onscreen = @ + EDITOR_ANIMATION_SPEED]
      [] OTHER ->
            IF r.editor_state_queue # <<>>
            THEN [r EXCEPT !.editor_state = Head(r.editor_state_queue),
                           !.editor_state_queue = Tail(@)]
            ELSE r

\* a variant of the guard of the level execution that ignores the pause
ExecutesPaused(r) == ~r.edit_mode

\* `if not self.edit_mode and not self.paused` of the main loop
Executes(r) == ~r.edit_mode /\ ~r.paused

\* a variant of the guard of EDIT -> RUN that lets a held entity through
CanStartRunHolding(r) == r.edit_mode

\* `if self.edit_mode and self.held_entity is None` of toggle_playing
CanStartRun(r) == r.edit_mode /\ r.held_entity = None

\* entity_copy_memo[id(ref)]: the copy save_state made of the object, None for
\* the KeyError of an object that was not on the board when it was copied
Memo(r, ref) ==
    IF ref[1] # 0 /\ ref[1] = r.entity_copy_memo.from /\ ref[2] \in r.entity_copy_memo.ids
    THEN <<r.entity_copy_memo.to, ref[2]>>
    ELSE None

\* LevelRunner.update_stale_references: [r, error]
update_stale_references(r) ==
    IF r.selected_entity # None /\ Memo(r, r.selected_entity) = None
    THEN [r |-> r, error |-> "KeyError"]
    ELSE LET r1 == IF r.selected_entity # None
                   THEN [r EXCEPT !.selected_entity = Memo(r, r.selected_entity)]
                   ELSE r
         IN  IF r1.editing_entity # None /\ Memo(r1, r1.editing_entity) = None
             THEN [r |-> r1, error |-> "KeyError"]
             ELSE [r |-> IF r1.editing_entity # None
                         THEN [r1 EXCEPT !.editing_entity = Memo(r1, r1.editing_entity)]
                         ELSE r1,
                   error |-> "none"]

\* the variables of the Level that a handler of the runner leaves alone
LevelUnchanged ==
    UNCHANGED <<store, board, saved_state, step_count, current_substep, won, error,
                tick_log, spawned, saved_copy, since_save>>

\* LevelRunner.toggle_playing, called with the fields r
toggle_playing(r) ==
    IF r.shelf_state \in {"open", "closed"} /\ CanStartRun(r)
    THEN /\ save_state
         /\ runner' = [r EXCEPT
                !.shelf_state = "closing", !.edit_mode = FALSE, !.paused = FALSE,
                !.entity_copy_memo =
                    [from |-> board, to |-> saved_state',
                     ids |-> {en[2] : en \in store[board].type_locs}]]
         /\ UNCHANGED <<board, step_count, current_substep, won, error, tick_log,
                        spawned>>
    ELSE IF r.shelf_state \in {"open", "closed"} /\ ~r.edit_mode
    THEN /\ load_saved_state
         /\ LET u == update_stale_references([r EXCEPT !.shelf_state = "opening"])
            IN  /\ error' = u.error
                /\ runner' = IF u.error = "none" THEN [u.r EXCEPT !.edit_mode = TRUE]
                             ELSE u.r
         /\ UNCHANGED <<saved_state, saved_copy>>
    ELSE runner' = r /\ LevelUnchanged

\* what a handler of the runner leaves alone in every case
RunnerFrame(c) ==
    /\ call' = c
    /\ UNCHANGED <<starting_state, scenario, bodies, wire_ops>>

\* one iteration of the main loop after its events: the animations, the switch
\* of the editing entity, and the level execution, which calls substep once
\* substep_progress has reached 1.0
Frame ==
    /\ error = "none"
    /\ LET r1 == handle_editor_animation(handle_shelf_animation(runner))
           r2 == IF r1.editor_state \in {"closed", "opening"}
                 THEN [r1 EXCEPT !.editing_entity = r1.selected_entity]
                 ELSE r1
       IN  /\ runner' = r2
           /\ \/ /\ Executes(r2)
                 /\ substeps_run < MaxRunSubsteps
                 /\ substep
                 /\ RunnerFrame(Op("substep"))
                 /\ UNCHANGED <<board, saved_state, saved_copy, ops>>
              \/ /\ r2 # runner
                 /\ LevelUnchanged
                 /\ RunnerFrame(Op("frame"))
                 /\ UNCHANGED <<substeps_run, ops>>

\* handle_keydown(K_SPACE)
KeySpace ==
    /\ error = "none"
    /\ ops < MaxEvents
    /\ toggle_playing(runner)
    /\ RunnerFrame(Op("toggle_playing"))
    /\ ops' = ops + 1
    /\ UNCHANGED substeps_run

\* where the mouse can be: over the first palette item, over the shelf beside
\* the items, over the editor panel beside its widgets, or over a board cell
\* that neither panel covers
RunnerCells == {At(0, 0), At(1, 0)}

Over(what, pos) == [over |-> what, pos |-> pos]

MouseTargets ==
    {Over(w, At(0, 0)) : w \in {"item", "shelf", "editor"}}
        \cup {Over("board", pos) : pos \in RunnerCells}

\* the shelf icons that draw_shelf_icons lays out in the mode of r
ShelfIcons(r) == IF r.edit_mode THEN {"play/pause"} ELSE {"stop", "play/pause"}

\* the icons lie in the band of the open shelf, in the columns of the open
\* editor: an icon is over the shelf while the shelf covers it, over the
\* editor while the editor covers it and the shelf does not reach it, and over
\* the board when neither panel reaches it
IconOver(r, at) ==
    CASE at.over = "shelf"  -> r.shelf_height_onscreen >= (SHELF_HEIGHT + SHELF_ICON_SIZE) \div 2
      [] at.over = "editor" -> /\ r.shelf_height_onscreen < (SHELF_HEIGHT - SHELF_ICON_SIZE) \div 2
                          /\ r.editor_width_onscreen = EDITOR_WIDTH
      [] at.over = "item"   -> FALSE
      [] at.over = "board"  -> /\ r.shelf_height_onscreen < (SHELF_HEIGHT - SHELF_ICON_SIZE) \div 2
                          /\ r.editor_width_onscreen = 0

\* the positions the panels leave to the mouse: the item's rectangle starts
\* (SHELF_HEIGHT - PALETTE_ITEM_SIZE) // 2 below the top of the shelf
MouseCanBe(r, at) ==
    CASE at.over = "item"   -> /\ r.shelf_height_onscreen > (SHELF_HEIGHT - PALETTE_ITEM_SIZE) \div 2
                               /\ store[board].items # <<>>
      [] at.over = "shelf"  -> r.shelf_height_onscreen > 0
      [] at.over = "editor" -> r.editor_width_onscreen > 0
      [] at.over = "board"  -> TRUE

\* the left click of handle_mousebuttondown over a board cell
ClickCell(r, pos) ==
    LET cell == BoardGet(Working, pos)
        entity_clicked == IF cell = <<>> THEN None ELSE <<board, cell[Len(cell)]>>
        r1 == IF r.selected_entity # entity_clicked THEN deselect_entity(r) ELSE r
    IN  IF entity_clicked # None /\ ~locked(Deref(r, entity_clicked).kind)
        THEN LET r2 == IF r.edit_mode
                       THEN [r1 EXCEPT !.held_entity = entity_clicked] ELSE r1
                 W == IF r.edit_mode
                      THEN BoardRemove(Working, pos, <<entity_clicked[2]>>)
                      ELSE Working
             IN  /\ runner' = IF editable(Deref(r, entity_clicked).kind)
                              THEN select_entity(r2, entity_clicked) ELSE r2
                 /\ store' = [store EXCEPT ![board] = StateOf(W)]
                 /\ error' = W.error
        ELSE /\ runner' = deselect_entity(r1)
             /\ UNCHANGED <<store, error>>

\* the left click of handle_mousebuttondown over a palette item
ClickItem(r) ==
    LET e_prototype == store[board].items[1][1]
        new == <<0, Len(r.instances) + 1>>
        R == PaletteRemove(store[board].items, e_prototype)
        r1 == [r EXCEPT !.instances = Append(@, get_instance(e_prototype)),
                        !.held_entity = new]
    IN  /\ store' = [store EXCEPT ![board].items = R.items]
        /\ error' = R.error
        /\ runner' = IF R.error = "none"
                     THEN select_entity(deselect_entity(r1), new) ELSE r1

\* handle_mousebuttondown(1) with the mouse at `at`, on the icon `icon` if any
MouseDown ==
    /\ error = "none"
    /\ ops < MaxEvents
    /\ ~runner.button_down
    /\ \E at \in MouseTargets, icon \in {"None", "stop", "play/pause"} :
        /\ MouseCanBe(runner, at)
        /\ icon # "None" => icon \in ShelfIcons(runner) /\ IconOver(runner, at)
        /\ LET r == [runner EXCEPT
                        !.button_down = TRUE,
                        !.pressed_icon = IF icon # "None" THEN icon ELSE @]
           IN  CASE at.over = "item" -> ClickItem(r)
                 [] at.over \in {"shelf", "editor"} ->
                        runner' = r /\ UNCHANGED <<store, error>>
                 [] at.over = "board" -> ClickCell(r, at.pos)
        /\ RunnerFrame(Call("mousebuttondown", NoEntity, NoIndex, at, NoIndex))
    /\ ops' = ops + 1
    /\ since_save' = Stale
    /\ UNCHANGED <<board, saved_state, step_count, current_substep, won, tick_log,
                   spawned, saved_copy, substeps_run>>

\* the reference of the held entity once it is inserted into the Board
Placed(W, ref, held) == IF ref = held /\ held[1] = 0 THEN <<board, W.next_id>> ELSE ref

\* the held part of handle_mousebuttonup: the held entity goes back to the
\* palette over the shelf, into the cell under the mouse elsewhere
Drop(r, at) ==
    LET held == r.held_entity
    IN  IF held = None THEN runner' = r /\ UNCHANGED <<store, error>>
        ELSE IF at.over = "shelf"
        THEN /\ store' = [store EXCEPT ![board].items =
                    PaletteAdd(@, Prototype(Deref(r, held).kind, "default"))]
             /\ runner' = deselect_entity([r EXCEPT !.held_entity = None])
             /\ UNCHANGED error
        ELSE LET W1 == IF held[1] = 0 THEN NewEntity(Working, Deref(r, held))
                       ELSE Working
                 id == IF held[1] = 0 THEN Working.next_id ELSE held[2]
                 W == BoardInsert(W1, at.pos, <<id>>)
                 r1 == [r EXCEPT
                          !.selected_entity = Placed(Working, @, held),
                          !.editing_entity = Placed(Working, @, held)]
                 r2 == IF editable(Deref(r, held).kind)
                       THEN select_entity(r1, <<board, id>>) ELSE r1
             IN  /\ store' = [store EXCEPT ![board] = StateOf(W)]
                 /\ runner' = [r2 EXCEPT !.held_entity = None]
                 /\ UNCHANGED error

\* handle_mousebuttonup(1) with the mouse at `at`: the pressed icon acts, then
\* the held entity is dropped; a toggle that changes the mode finds no entity
\* held, because the click that pressed the icon was not on a palette item
MouseUp ==
    /\ error = "none"
    /\ ops < MaxEvents
    /\ runner.button_down
    /\ \E at \in {a \in MouseTargets : a.over \in {"shelf", "board"}} :
        /\ MouseCanBe(runner, at)
        /\ LET icon == runner.pressed_icon
               r == [runner EXCEPT !.pressed_icon = "None", !.button_down = FALSE]
               toggles == \/ icon = "stop"
                          \/ icon = "play/pause" /\ r.edit_mode
           IN  IF toggles /\ r.shelf_state \in {"open", "closed"}
                          /\ (CanStartRun(r) \/ ~r.edit_mode)
               THEN toggle_playing(r)
               ELSE /\ Drop(IF icon = "play/pause" /\ ~r.edit_mode
                            THEN [r EXCEPT !.paused = ~@] ELSE r, at)
                    /\ since_save' = Stale
                    /\ UNCHANGED <<board, saved_state, step_count, current_substep,
                                   won, tick_log, spawned, saved_copy>>
        /\ RunnerFrame(Call("mousebuttonup", NoEntity, NoIndex, at, NoIndex))
    /\ ops' = ops + 1
    /\ UNCHANGED substeps_run

InitRunner == LevelInitOver("Runner", LevelRunner)

NextRunner ==
    \/ Frame
    \/ KeySpace
    \/ MouseDown
    \/ MouseUp

SpecRunner == InitRunner /\ [][NextRunner]_vars

\* ------------------------------------------------------------ the properties
Live_ents == store[board].ents

TargetIds == {en[2] : en \in {x \in store[board].type_locs :
                                  Live_ents[x[2]].kind = "Target"}}

\* the entities some cell of the live board holds
OnBoard == UNION {Range(store[board].cells[p]) : p \in DOMAIN store[board].cells}

Count(log, f) == Cardinality({k \in DOMAIN log : log[k] = f})

\* the last call was a substep that returned
SubstepReturned == call.op = "substep" /\ error = "none"

\* the last call was the substep that completed a tick
TickDone == SubstepReturned /\ current_substep = 0

\* C1: in every tick resolve_wiring_network runs after the tick's
\* apply_translations and after an apply_merges that follows the translation,
\* after apply_sensors, and before the tick's apply_pistons; a completed tick
\* has run all of them.
C1_ResolveBetweenMotionAndPistons ==
    /\ \A r \in DOMAIN tick_log :
          tick_log[r] = "resolve_wiring_network" =>
              /\ \E t \in 1..r, m \in 1..r :
                    /\ t < m /\ m < r
                    /\ tick_log[t] = "apply_translations"
                    /\ tick_log[m] = "apply_merges"
              /\ \E q \in 1..r : q < r /\ tick_log[q] = "apply_sensors"
    /\ \A q \in DOMAIN tick_log :
          tick_log[q] = "apply_pistons" =>
              /\ \E r \in 1..q : r < q /\ tick_log[r] = "resolve_wiring_network"
              /\ \A r \in DOMAIN tick_log :
                    tick_log[r] = "resolve_wiring_network" => r < q
    /\ TickDone =>
          {"apply_translations", "apply_sensors", "resolve_wiring_network",
           "apply_pistons"} \subseteq Range(tick_log)

\* a completed tick whose log holds the resolution and the pistons after it
C1_Witness ==
    /\ TickDone
    /\ scenario = "NoTargets"
    /\ \E r, q \in DOMAIN tick_log :
          /\ r < q
          /\ tick_log[r] = "resolve_wiring_network"
          /\ tick_log[q] = "apply_pistons"

\* the phases that apply the eight effects of a tick (the actuation is
\* apply_sensors and apply_pistons)
Effects ==
    {"apply_resource_extractors", "apply_translations", "apply_merges",
     "apply_rotations", "apply_targets", "resolve_wiring_network",
     "apply_sensors", "apply_pistons", "check_won"}

\* C2 as stated: within a tick each of the eight effects is applied exactly
\* once.
C2_EachEffectOnce ==
    TickDone => \A f \in Effects : Count(tick_log, f) = 1

\* C2: within a tick every effect is applied exactly once, except merging,
\* which is applied exactly twice (once in each substep).
C2_EachEffectOnceMergesTwice ==
    TickDone =>
        /\ \A f \in Effects \ {"apply_merges"} : Count(tick_log, f) = 1
        /\ Count(tick_log, "apply_merges") = 2
        /\ tick_log = substeps[1] \o substeps[2]

\* a completed tick of the mixing level in whose second substep two barrels
\* merged into a VIOLET one
C2_Witness ==
    /\ TickDone
    /\ scenario = "Mix"
    /\ \E id \in OnBoard : Live_ents[id].kind = "Barrel" /\ Live_ents[id].color = "VIOLET"

\* C3: after every substep that returned (the one in which check_won ran, and
\* the one that ends the tick) won is true iff every Target on the board has
\* count = 0.
C3_WonIffTargetsZero ==
    SubstepReturned => (won <=> \A id \in TargetIds : Live_ents[id].count = 0)

\* won after a substep on a board that has a Target
C3_Witness == SubstepReturned /\ won /\ TargetIds # {}

\* C4 as stated: a Level over a board without Targets has won = true right
\* after construction.
C4_WonAtConstruction == (call.op = "init" /\ TargetIds = {}) => won

\* C4: a Level over a board without Targets has won = false right after
\* construction, and won = true after every substep that returned, the first
\* one of tick 0 included.
C4_WonAfterFirstSubstep ==
    TargetIds = {} =>
        /\ call.op = "init" => ~won
        /\ SubstepReturned => won

\* the first substep of tick 0 on the level without Targets has returned
C4_Witness ==
    /\ scenario = "NoTargets"
    /\ TargetIds = {}
    /\ SubstepReturned
    /\ step_count = 0 /\ current_substep = 1
    /\ won

\* the barrel the extractor of the end-to-end level spawns first
FirstBarrel == LevelE2E.next_id

\* C5: on the end-to-end level a run of substeps alone has not won before its
\* 7th substep; after the 7th (tick 3, far below 10) no exception was raised,
\* won is true, the Target counts 0 and the barrel that satisfied it is on no
\* cell of the board.
C5_EndToEndWins ==
    (scenario = "E2E" /\ ops = 0) =>
        /\ error = "none"
        /\ substeps_run < 7 => ~won
        /\ substeps_run = 7 =>
              /\ won
              /\ step_count = 3 /\ step_count <= 10
              /\ \A id \in TargetIds : Live_ents[id].count = 0
              /\ FirstBarrel \notin OnBoard
              /\ \A en \in store[board].type_locs : en[2] # FirstBarrel

\* the end-to-end level after the substep that absorbed the barrel
C5_Witness ==
    /\ scenario = "E2E" /\ ops = 0
    /\ substeps_run = 7
    /\ won
    /\ FirstBarrel \notin OnBoard

\* the extractors of the live board that share their cell with a ResourceTile
FedExtractors ==
    {en \in store[board].type_locs :
        /\ Live_ents[en[2]].kind = "ResourceExtractor"
        /\ \E k \in DOMAIN store[board].cells[en[1]] :
              Live_ents[store[board].cells[en[1]][k]].kind = "ResourceTile"}

\* C6: in the substep of tick t that runs apply_resource_extractors, an
\* extractor of period p and phase f over a ResourceTile spawns exactly one
\* Barrel when t mod p = f - 1, and none otherwise.
C6_SpawnSchedule ==
    (SubstepReturned /\ current_substep = 1) =>
        \A en \in FedExtractors :
            LET e == Live_ents[en[2]]
            IN  /\ 1 <= e.phase /\ e.phase <= e.period
                /\ Count(spawned, en[2]) =
                      (IF step_count % e.period = e.phase - 1 THEN 1 ELSE 0)

\* the extractor of period 2 and phase 2 has spawned in tick 1, and not in
\* tick 0 (the barrel of tick 1 is the first one)
C6_Witness ==
    /\ scenario = "NoTargets"
    /\ SubstepReturned /\ current_substep = 1
    /\ step_count = 1
    /\ spawned = <<2>>
    /\ \E id \in OnBoard : Live_ents[id].kind = "Barrel" /\ id = LevelNoTargets.next_id

\* C7: load_saved_state after save_state and any number of substeps (and
\* nothing else) leaves the board and the palette equal to their value at the
\* save, with step_count = 0, current_substep = 0 and won = false.
C7_LoadRestoresSave ==
    since_save \in {"restored_saved", "restored_ran"} =>
        /\ call.op = "load_saved_state"
        /\ store[board] = saved_copy
        /\ step_count = 0
        /\ current_substep = 0
        /\ ~won

\* a load after a save and at least six substeps: the run had changed the
\* board and is discarded
C7_Witness ==
    /\ since_save = "restored_ran"
    /\ substeps_run >= 6
    /\ store[board] = saved_copy

\* C8 as stated: every reset() leaves the board and the palette equal to the
\* state the Level was constructed over, with step_count = 0,
\* current_substep = 0 and won = false.
C8_ResetRestoresStart ==
    call.op = "reset" =>
        /\ store[board] = LevelState(scenario)
        /\ step_count = 0
        /\ current_substep = 0
        /\ ~won

\* C9 as stated: every connection is symmetric, 1:1 and type-safe: if port i
\* of A records (B, j) then port j of B records (A, i), and exactly one of the
\* two ports is an input.
C9_ConnectionsSymmetric ==
    \A a \in WirableIds : \A k \in DOMAIN Live_ents[a].wirings :
        LET wi == Live_ents[a].wirings[k]
        IN  wi.other # NoEntity =>
                LET pb == ListPos(Live_ents[wi.other].wirings, wi.j)
                IN  /\ pb # 0
                    /\ Live_ents[wi.other].wirings[pb].other = a
                    /\ Live_ents[wi.other].wirings[pb].j = k - 1
                    /\ Live_ents[wi.other].wirings[pb].inp # wi.inp

\* C10: make_connection on two ports of the same direction raises ValueError
\* and leaves the wirings of every entity as they were.
C10_SameDirectionRaises ==
    [][(/\ call'.op = "make_connection"
        /\ Live_ents[call'.a].wirings[call'.i + 1].inp
             = Live_ents[call'.b].wirings[call'.j + 1].inp)
       => (/\ error' = "ValueError"
           /\ store'[board'].ents = Live_ents)]_vars

\* a make_connection between two ports of the same direction has raised
C10_Witness ==
    /\ call.op = "make_connection"
    /\ error = "ValueError"
    /\ Live_ents[call.a].wirings[call.i + 1].inp = Live_ents[call.b].wirings[call.j + 1].inp

\* ---------------------------------------------------------- wiring resolution
\* the ports of the Wirables of the live board, as (entity, Python index)
BoardPorts ==
    {<<id, i>> : id \in WirableIds, i \in 0..30} \cap
        UNION {{<<id, i>> : i \in PortsOf(id)} : id \in WirableIds}

\* the ports whose value the body of resolve_port reads to resolve port p
Feeds(E, p) ==
    LET e  == E[p[1]]
        wi == e.wirings[p[2] + 1]
    IN  IF wi.other = NoEntity THEN {}
        ELSE IF wi.inp THEN {<<wi.other, wi.j>>}
        ELSE IF e.kind \in GateKinds THEN {<<p[1], k>> : k \in 0..(e.num_inputs - 1)}
        ELSE IF e.kind = "Piston" THEN {<<p[1], 0>>}
        ELSE {}

\* the ports the resolution of the ports S reaches
RECURSIVE FeedClosure(_, _)
FeedClosure(E, S) ==
    LET T == S \cup UNION {Feeds(E, p) : p \in S}
    IN  IF T = S THEN S ELSE FeedClosure(E, T)

\* no port of the live board feeds itself
Acyclic == \A p \in BoardPorts : p \notin FeedClosure(Live_ents, Feeds(Live_ents, p))

\* the last call was a resolve_wiring_network that returned
Resolved == call.op = "resolve_wiring_network" /\ error = "none"

\* the value port i (Python index) of entity id holds
PortState(id, i) == Live_ents[id].port_states[i + 1]

\* C11: resolve_wiring_network terminates on every wiring graph, feedback
\* cycles included: no call of it ends in a RecursionError, and the body of
\* resolve_port runs at most once for each port in a pass.
C11_ResolutionTerminates ==
    call.op = "resolve_wiring_network" =>
        /\ error # "RecursionError"
        /\ \A p \in DOMAIN bodies : bodies[p] = 1

\* a pass over the ring of two NOT gates and the self-fed AND gate has run the
\* body of each of the seven ports
C11_Witness ==
    /\ Resolved
    /\ scenario = "Ring"
    /\ ~Acyclic
    /\ DOMAIN bodies = BoardPorts
    /\ Cardinality(BoardPorts) = 7

\* C12 as stated: on a wiring graph with a feedback cycle the values a pass
\* resolves are the same for every order in which resolve_wiring_network
\* enumerates the Wirables of the board.
C12_OrderIndependent ==
    (error = "none" /\ ~Acyclic) =>
        \A W1, W2 \in resolve_wiring_network(Working) :
            /\ W1.error = W2.error
            /\ \A p \in BoardPorts :
                  W1.ents[p[1]].port_states[p[2] + 1] = W2.ents[p[1]].port_states[p[2] + 1]

\* the three rules of C13 for port p, the third one for the gate outputs in
\* `outputs`
PortRules(p, outputs) ==
    LET e  == Live_ents[p[1]]
        wi == e.wirings[p[2] + 1]
        In(k) == PortState(p[1], k) = "True"
        Ins == 0..(e.num_inputs - 1)
    IN  /\ wi.other = NoEntity => PortState(p[1], p[2]) = "False"
        /\ (wi.other # NoEntity /\ wi.inp) =>
               PortState(p[1], p[2]) = PortState(wi.other, wi.j)
        /\ (p \in outputs /\ e.kind = "AndGate") =>
               (PortState(p[1], p[2]) = "True") = (\A k \in Ins : In(k))
        /\ (p \in outputs /\ e.kind = "OrGate") =>
               (PortState(p[1], p[2]) = "True") = (\E k \in Ins : In(k))
        /\ (p \in outputs /\ e.kind = "NotGate") =>
               (PortState(p[1], p[2]) = "True") = ~In(0)

GateOutputs ==
    {p \in BoardPorts : /\ Live_ents[p[1]].kind \in GateKinds
                        /\ ~Live_ents[p[1]].wirings[p[2] + 1].inp}

ConnectedGateOutputs ==
    {p \in GateOutputs : Live_ents[p[1]].wirings[p[2] + 1].other # NoEntity}

\* C13 as stated: after a pass over an acyclic graph every unconnected port
\* holds false, every connected input holds the value of the output it is
\* connected to, and every gate output holds the gate's function of the
\* gate's resolved inputs.
C13_EveryGateOutput ==
    (Resolved /\ Acyclic) => \A p \in BoardPorts : PortRules(p, GateOutputs)

\* C13, amended: after a pass over an acyclic graph every unconnected port,
\* a gate output included, holds false, every connected input holds the value
\* of the output it is connected to, and every connected gate output holds
\* the gate's function of the gate's resolved inputs.
C13_ConnectedGateOutputs ==
    (Resolved /\ Acyclic) => \A p \in BoardPorts : PortRules(p, ConnectedGateOutputs)

\* a pass over the acyclic circuit in which the AND gate, fed by the NOT of
\* the first sensor and by the second sensor, resolved to true
C13_Witness ==
    /\ Resolved
    /\ scenario = "Acyclic"
    /\ Acyclic
    /\ PortState(4, 2) = "True"
    /\ PortState(3, 0) = "False"

\* the wired sensors of one kind on the live board, with their cells
WiredEntries(kind) ==
    {en \in store[board].type_locs :
        /\ Live_ents[en[2]].kind = kind
        /\ Live_ents[en[2]].wirings[1].other # NoEntity}

BarrelAt(pos) ==
    /\ pos \in DOMAIN store[board].cells
    /\ \E k \in DOMAIN store[board].cells[pos] :
          Live_ents[store[board].cells[pos][k]].kind = "Barrel"

\* C14 as stated: in every tick, by the time reset_wiring_network has been
\* called and resolve_wiring_network has not yet run, the call has returned
\* and every port of every Wirable on the board holds None and is unvisited.
C14_PortsResetEachTick ==
    (/\ call.op = "substep"
     /\ "reset_wiring_network" \in Range(tick_log)
     /\ "resolve_wiring_network" \notin Range(tick_log)) =>
        /\ error = "none"
        /\ \A p \in BoardPorts :
              /\ PortState(p[1], p[2]) = "None"
              /\ ~Live_ents[p[1]].ports_visited[p[2] + 1]

\* C15 as stated: after apply_sensors and then resolve_wiring_network the
\* resolution has not raised the RuntimeError of a sensor without a reading,
\* and the output of every wired PressurePlate is true iff a Barrel is in the
\* cell of the PressurePlate.
C15_PlateReadsOwnCell ==
    (/\ call.op = "resolve_wiring_network"
     /\ Len(tick_log) >= 2
     /\ tick_log[Len(tick_log) - 1] = "apply_sensors") =>
        \A en \in WiredEntries("PressurePlate") :
            /\ error # "RuntimeError"
            /\ (PortState(en[2], 0) = "True") = BarrelAt(en[1])

\* C16 as stated: every substep of a tick on a board with a wired Sensor
\* returns, and when the tick is complete the activated flag of the Sensor is
\* set and its output holds true iff a Barrel is in the cell it faces.
C16_SensorReadsFacedCell ==
    call.op = "substep" =>
        \A en \in WiredEntries("Sensor") :
            /\ error = "none"
            /\ TickDone =>
                  /\ Live_ents[en[2]].activated # "None"
                  /\ (PortState(en[2], 0) = "True")
                        = BarrelAt(V2Add(en[1], Live_ents[en[2]].dir))

\* ------------------------------------------------------------------ the Board
\* C17 as stated: no coordinate of the Board maps to an empty cell.
C17_NoEmptyCell ==
    \A p \in DOMAIN store[board].cells : store[board].cells[p] # <<>>

\* C18 as stated: a call of Board.remove either returns with none of the
\* listed entities left in the cell, or raises ValueError with the cells and
\* the per-type index as they were before the call.
C18_RemoveAtomic ==
    [][call'.op = "remove" =>
        IF error' = "none"
        THEN \A k \in DOMAIN call'.a :
                call'.a[k] \notin Range(store'[board'].cells[call'.b])
        ELSE /\ error' = "ValueError"
             /\ store'[board'].cells = store[board].cells
             /\ store'[board'].type_locs = store[board].type_locs]_vars

\* ------------------------------------------------------------------ the merge
\* the board the Level was constructed with
Original == store[starting_state]

IsBarrel(st, id) == st.ents[id].kind = "Barrel"

\* the Barrels and the other entities of a cell, in cell order
BarrelsOf(st, pos) == SelectSeq(st.cells[pos], LAMBDA id : IsBarrel(st, id))

OthersOf(st, pos) == SelectSeq(st.cells[pos], LAMBDA id : ~IsBarrel(st, id))

\* the mix of a list of colours, from the left
RECURSIVE Mix(_)
Mix(cs) ==
    IF Len(cs) = 1 THEN cs[1]
    ELSE ColorAdd(Mix(SubSeq(cs, 1, Len(cs) - 1)), cs[Len(cs)])

OriginalColors(pos) ==
    [k \in DOMAIN BarrelsOf(Original, pos) |->
        Original.ents[BarrelsOf(Original, pos)[k]].color]

\* C19: after apply_merges every cell holds at most one Barrel; a cell that
\* held more than one holds a single Barrel that was not on the board before,
\* of the colour of the left-to-right mix of the originals in cell order; the
\* other entities of the cell, and the cells with at most one Barrel, are as
\* they were.
C19_MergeFoldsLeft ==
    call.op = "apply_merges" =>
        /\ error = "none"
        /\ DOMAIN store[board].cells = DOMAIN Original.cells
        /\ \A pos \in DOMAIN Original.cells :
              LET now == BarrelsOf(store[board], pos)
              IN  /\ Len(now) <= 1
                  /\ OthersOf(store[board], pos) = OthersOf(Original, pos)
                  /\ \A k \in DOMAIN OthersOf(Original, pos) :
                        Live_ents[OthersOf(Original, pos)[k]]
                            = Original.ents[OthersOf(Original, pos)[k]]
                  /\ IF Len(BarrelsOf(Original, pos)) > 1
                     THEN /\ Len(now) = 1
                          /\ now[1] \notin DOMAIN Original.ents
                          /\ Live_ents[now[1]].color = Mix(OriginalColors(pos))
                     ELSE store[board].cells[pos] = Original.cells[pos]

\* the cell that held a RED, a RED and a YELLOW Barrel holds one ORANGE
\* Barrel
C19_Witness ==
    /\ call.op = "apply_merges"
    /\ OriginalColors(At(0, 0)) = <<"RED", "RED", "YELLOW">>
    /\ Len(BarrelsOf(store[board], At(0, 0))) = 1
    /\ Live_ents[BarrelsOf(store[board], At(0, 0))[1]].color = "ORANGE"

\* C20: the mix of two colours of the palette raises no error and is a colour
\* of the palette: the merge of a cell of two Barrels of any two colours
\* returns and leaves a Barrel of one of the thirteen colours.
C20_MixClosed ==
    (call.op = "apply_merges" /\ Len(OriginalColors(At(0, 0))) = 2) =>
        /\ error = "none"
        /\ \A k \in DOMAIN BarrelsOf(store[board], At(0, 0)) :
              Live_ents[BarrelsOf(store[board], At(0, 0))[k]].color \in Colors

\* the mix of two colours without a perfect midpoint: RED_ORANGE and YELLOW
\* made YELLOW_ORANGE
C20_Witness ==
    /\ call.op = "apply_merges"
    /\ error = "none"
    /\ OriginalColors(At(0, 0)) = <<"RED_ORANGE", "YELLOW">>
    /\ Live_ents[BarrelsOf(store[board], At(0, 0))[1]].color = "YELLOW_ORANGE"

\* ------------------------------------------------------------ the colour mix
\* the colours of the Barrels cell (0, 0) was constructed with
Mixed == OriginalColors(At(0, 0))

\* apply_merges has merged the Barrels of cell (0, 0) into one
MergedPair ==
    /\ call.op = "apply_merges"
    /\ error = "none"
    /\ Len(Mixed) = 2
    /\ Len(BarrelsOf(store[board], At(0, 0))) = 1

\* the colour of the Barrel apply_merges left in cell (0, 0)
MergedColor == Live_ents[BarrelsOf(store[board], At(0, 0))[1]].color

\* C21: the mix is commutative: the Barrel that the merge of a cell of two
\* Barrels of colours a, b leaves has the colour of b + a.
C21_MixCommutative ==
    (call.op = "apply_merges" /\ Len(Mixed) = 2) =>
        /\ MergedPair
        /\ MergedColor = ColorAdd(Mixed[2], Mixed[1])

\* an adjacent pair in both orders: YELLOW then YELLOW_ORANGE made
\* YELLOW_ORANGE, as YELLOW_ORANGE + YELLOW does
C21_Witness ==
    /\ MergedPair
    /\ Mixed = <<"YELLOW", "YELLOW_ORANGE">>
    /\ MergedColor = "YELLOW_ORANGE"
    /\ ColorAdd("YELLOW_ORANGE", "YELLOW") = "YELLOW_ORANGE"

\* C22: the mix is idempotent: the merge of a cell of two Barrels of one
\* colour c, BROWN included, leaves a Barrel of colour c.
C22_MixIdempotent ==
    (call.op = "apply_merges" /\ Len(Mixed) = 2 /\ Mixed[1] = Mixed[2]) =>
        /\ MergedPair
        /\ MergedColor = Mixed[1]

\* two BROWN Barrels made one BROWN Barrel
C22_Witness ==
    /\ MergedPair
    /\ Mixed = <<"BROWN", "BROWN">>
    /\ MergedColor = "BROWN"

\* the concrete cases of C23: (a, b, a + b)
MixCases ==
    {<<"RED", "BLUE", "VIOLET">>,
     <<"RED", "YELLOW", "ORANGE">>,
     <<"RED", "GREEN", "BROWN">>,
     <<"RED", "RED_ORANGE", "RED_ORANGE">>,
     <<"RED_VIOLET", "VIOLET", "RED_VIOLET">>,
     <<"VIOLET", "RED_VIOLET", "RED_VIOLET">>,
     <<"BLUE", "YELLOW_GREEN", "BLUE_GREEN">>}

\* C23: RED+BLUE = VIOLET, RED+YELLOW = ORANGE, RED+GREEN = BROWN,
\* RED+RED_ORANGE = RED_ORANGE, RED_VIOLET+VIOLET = VIOLET+RED_VIOLET =
\* RED_VIOLET and BLUE+YELLOW_GREEN = BLUE_GREEN.
C23_MixCases ==
    \A c \in MixCases :
        (call.op = "apply_merges" /\ Mixed = <<c[1], c[2]>>) =>
            /\ MergedPair
            /\ MergedColor = c[3]

\* BLUE and YELLOW_GREEN, whose midpoint is off the lattice, made BLUE_GREEN
C23_Witness ==
    /\ MergedPair
    /\ Mixed = <<"BLUE", "YELLOW_GREEN">>
    /\ MergedColor = "BLUE_GREEN"

\* the entities that stand on the Board in slot b of the state st
OnBoardIds(st, b) == {en[2] : en \in st[b].type_locs}

\* C24: a RUN -> EDIT transition (load_saved_state, then
\* update_stale_references) never fails, whatever the user did during the
\* run, and each of selected_entity and editing_entity that was not None names
\* afterwards the entity of the restored board that is the copy of the one it
\* named before.
C24_RemapNeverFails ==
    [][board' # board =>
        /\ error' = "none"
        /\ \A f \in {"selected_entity", "editing_entity"} :
              runner[f] # None =>
                  /\ runner[f][1] = board
                  /\ runner'[f] = <<board', runner[f][2]>>
                  /\ runner[f][2] \in OnBoardIds(store', board')]_vars

\* C25: the runner is EDIT or RUN; substep runs only in RUN and not paused;
\* EDIT -> RUN is taken only with no entity held and leaves in saved_state a
\* copy of the board and palette; in EDIT, and on entering RUN, step_count and
\* current_substep are 0.
C25_TwoStateMachine ==
    [][/\ substeps_run' # substeps_run => ~runner.edit_mode /\ ~runner.paused
       /\ (runner.edit_mode /\ ~runner'.edit_mode) =>
              /\ runner.held_entity = None
              /\ saved_state' \notin {0, board'}
              /\ store'[saved_state'] = store[board]
              /\ store'[board'] = store[board]
              /\ step_count' = 0 /\ current_substep' = 0
       /\ runner'.edit_mode => step_count' = 0 /\ current_substep' = 0]_vars

C25_Witness ==
    /\ runner.edit_mode /\ error = "none"
    /\ substeps_run >= 2 /\ saved_state # 0
    /\ step_count = 0 /\ current_substep = 0

\* ---------------------------------------------------------------- the Palette
Items == store[board].items

\* the positions of the entries of the palette that equal the prototype
Matches(proto) == {k \in DOMAIN Items : Items[k][1] = proto}

\* C26: Palette.remove(proto) raises ValueError and leaves the palette as it
\* was when no entry equals proto; otherwise it lowers the count of the first
\* such entry by one and drops the entry at zero; after every add and remove
\* each stored count is at least 1.
C26_PaletteRemove ==
    [][/\ call'.op = "palette_remove" =>
            LET proto == call'.a
                k == Min(Matches(proto))
            IN  IF Matches(proto) = {}
                THEN error' = "ValueError" /\ Items' = Items
                ELSE /\ error' = "none"
                     /\ IF Items[k][2] = 1
                        THEN Items' = [n \in 1..(Len(Items) - 1) |->
                                          IF n < k THEN Items[n] ELSE Items[n + 1]]
                        ELSE Items' = [Items EXCEPT ![k] = <<proto, Items[k][2] - 1>>]
       /\ call'.op \in {"palette_remove", "palette_add"} =>
            \A n \in DOMAIN Items' : Items'[n][2] >= 1]_vars

\* the Boostpad was taken out, its entry dropped, and the next removal raised
C26_Witness ==
    /\ call.op = "palette_remove" /\ call.a = Prototype("Boostpad", "default")
    /\ error = "ValueError"
    /\ ops = 2
    /\ Items = <<>>

\* ------------------------------------------------------------ single phases
\* the cells of the state st that hold the entity id
Where(st, id) == {p \in DOMAIN st.cells : id \in Range(st.cells[p])}

\* the cell p of the state st holds an entity with stops = true
Blocked(st, p) ==
    /\ p \in DOMAIN st.cells
    /\ \E k \in DOMAIN st.cells[p] : stops(st.ents[st.cells[p][k]].kind)

\* the entries of the kind in the per-type index of the state st
Entries(st, kind) == {en \in st.type_locs : st.ents[en[2]].kind = kind}

\* C27: a translation phase moves every Barrel with a nonzero velocity whose
\* destination holds no stops=true entity into that destination, leaves every
\* other Barrel in its cell, and changes no velocity; other Barrels in the
\* destination do not block.
C27_Translation ==
    [][call'.op = "apply_translations" =>
        /\ error' = "none"
        /\ \A en \in Entries(store[board], "Barrel") :
              LET v == store[board].ents[en[2]].dir
                  dest == V2Add(en[1], v)
              IN  /\ en[2] \in DOMAIN store'[board'].ents
                  /\ store'[board'].ents[en[2]] = store[board].ents[en[2]]
                  /\ Where(store'[board'], en[2]) =
                        {IF v # "NONE" /\ ~Blocked(store[board], dest)
                         THEN dest ELSE en[1]}]_vars

\* the first Barrel went east into the cell of the second, which the Barrier
\* kept in its cell
C27_Witness ==
    /\ call.op = "apply_translations" /\ scenario = "Yard" /\ ops = 1
    /\ Original.ents[1].dir = "EAST" /\ Original.ents[2].dir = "EAST"
    /\ Where(store[board], 1) = {At(1, 0)}
    /\ Where(store[board], 2) = {At(1, 0)}

\* the positions of the cell of en after the call that the cell did not hold
\* before it
Spawn(en) ==
    {k \in DOMAIN store'[board'].cells[en[1]] :
        store'[board'].cells[en[1]][k] \notin Range(store[board].cells[en[1]])}

\* C29: an extractor spawns at most one Barrel in a call, however many
\* ResourceTiles its cell holds; the Barrel has the colour of the first
\* ResourceTile of the cell and the extractor's orientation as velocity; an
\* extractor without a ResourceTile in its cell spawns nothing.
C29_OneSpawn ==
    [][call'.op = "apply_resource_extractors" =>
        \A en \in Entries(store[board], "ResourceExtractor") :
            LET cell == store[board].cells[en[1]]
                tiles == {k \in DOMAIN cell :
                            store[board].ents[cell[k]].kind = "ResourceTile"}
            IN  /\ Cardinality(Spawn(en)) <= 1
                /\ tiles = {} => Spawn(en) = {}
                /\ \A k \in Spawn(en) :
                      store'[board'].ents[store'[board'].cells[en[1]][k]] =
                          Barrel(store[board].ents[cell[Min(tiles)]].color,
                                 store[board].ents[en[2]].dir)]_vars

\* the extractor over a RED and a BLUE tile spawned one RED Barrel, the one
\* that stands before its BLUE tile a BLUE one, the one without a tile none
C29_Witness ==
    /\ call.op = "apply_resource_extractors" /\ scenario = "Mine" /\ ops = 1
    /\ Original.ents[1].color = "RED" /\ Original.ents[2].color = "BLUE"
    /\ Len(store[board].cells[At(0, 0)]) = 4
    /\ store[board].ents[store[board].cells[At(0, 0)][4]]
          = Barrel("RED", Original.ents[3].dir)
    /\ Len(store[board].cells[At(2, 0)]) = 3
    /\ store[board].ents[store[board].cells[At(2, 0)][3]].color = "BLUE"
    /\ store[board].cells[At(0, 2)] = <<6>>

\* C30: the absorption phase takes every Barrel of a Target's cell off the
\* board, whatever its colour, and lowers the Target's count by the number of
\* those Barrels that have the Target's colour.
C30_Absorb ==
    [][call'.op = "apply_targets" =>
        /\ error' = "none"
        /\ \A en \in Entries(store[board], "Target") :
              LET cell == store[board].cells[en[1]]
                  barrels == {k \in DOMAIN cell :
                                store[board].ents[cell[k]].kind = "Barrel"}
                  matching == {k \in barrels :
                                store[board].ents[cell[k]].color
                                    = store[board].ents[en[2]].color}
              IN  /\ \A k \in barrels :
                        /\ Where(store'[board'], cell[k]) = {}
                        /\ <<en[1], cell[k]>> \notin store'[board'].type_locs
                  /\ store'[board'].ents[en[2]].count =
                        store[board].ents[en[2]].count - Cardinality(matching)]_vars

\* a RED and a BLUE Barrel stood with a Target(RED, 2): both are gone, the
\* count is 1, the Barrel of the next cell is where it was
C30_Witness ==
    /\ call.op = "apply_targets" /\ scenario = "Sink" /\ ops = 1
    /\ Original.ents[1] = Target("RED", 2)
    /\ Original.cells[At(0, 0)] = <<2, 1, 3>>
    /\ Original.ents[2].color = "RED" /\ Original.ents[3].color = "BLUE"
    /\ store[board].cells[At(0, 0)] = <<1>>
    /\ store[board].ents[1].count = 1
    /\ store[board].cells[At(1, 0)] = <<4>>

\* ------------------------------------------------------------------ the tick
\* the working states a whole tick can leave when it starts in the live state:
\* one for each way the phases of its two substeps can enumerate the entities
TickOutcomes ==
    UNION {RunFuns(substeps[2], 1, {Collect(W)}) :
              W \in RunFuns(substeps[1], 1, {Working})}

\* what stands where: for every cell the kinds, colours and velocities of its
\* entities, each with the number of entities of the cell that share them
Standing(W) ==
    UNION {{<<p, W.ents[W.cells[p][k]].kind, W.ents[W.cells[p][k]].color,
              W.ents[W.cells[p][k]].dir,
              Cardinality({n \in DOMAIN W.cells[p] :
                  /\ W.ents[W.cells[p][n]].kind = W.ents[W.cells[p][k]].kind
                  /\ W.ents[W.cells[p][n]].color = W.ents[W.cells[p][k]].color
                  /\ W.ents[W.cells[p][n]].dir = W.ents[W.cells[p][k]].dir})>> :
               k \in DOMAIN W.cells[p]} :
           p \in DOMAIN W.cells}

\* C28 as stated: the board a tick leaves is the same for every order in
\* which its phases enumerate the entities of the state the tick starts in.
C28_TickDeterministic ==
    (error = "none" /\ current_substep = 0) =>
        \A W1, W2 \in TickOutcomes :
            /\ W1.error = W2.error
            /\ Standing(Collect(W1)) = Standing(Collect(W2))
\* ------------------------------------------------------------------ the pistons
\* the entities with moves = true that the cell p of the state st holds
Movers(st, p) ==
    IF p \notin DOMAIN st.cells THEN {}
    ELSE {st.cells[p][k] : k \in {n \in DOMAIN st.cells[p] :
                                      moves(st.ents[st.cells[p][n]].kind)}}

\* the input port of the Piston id resolved true
InputTrue(st, id) == st.ents[id].port_states[1] = "True"

\* C31 as stated: in the actuation phase that follows a resolution, every
\* entity with moves = true in the cell a Piston with a true input faces ends
\* one cell further in the Piston's orientation with that orientation as its
\* velocity, and when no Piston has a true input nothing moves and no velocity
\* changes.
C31_PistonPushesOnce ==
    [][(call.op = "resolve_wiring_network" /\ call'.op = "apply_pistons") =>
        LET st == store[board]
            pistons == Entries(st, "Piston")
        IN  /\ error' = "none"
            /\ \A en \in pistons :
                  LET o == st.ents[en[2]].dir
                      focus == V2Add(en[1], o)
                  IN  InputTrue(st, en[2]) =>
                        \A d \in Movers(st, focus) :
                            /\ Where(store'[board'], d) = {V2Add(focus, o)}
                            /\ store'[board'].ents[d].dir = o
            /\ (\A en \in pistons : ~InputTrue(st, en[2])) =>
                  store'[board'] = st]_vars
\* ------------------------------------------------------------------ the editors
\* C32 as stated: whatever boxes of the period and phase editors are clicked,
\* every ResourceExtractor has 2 <= period <= 5 and 1 <= phase <= period.
C32_PeriodPhaseInRange ==
    \A id \in Extractors :
        LET e == store[board].ents[id]
        IN  /\ 2 <= e.period /\ e.period <= 5
            /\ 1 <= e.phase /\ e.phase <= e.period
\* ------------------------------------------------------------------ the targets
\* C33 as stated: no Target ever has a negative count, and a level that has
\* won stays won while the run goes on.
C33_CountNeverNegative ==
    /\ [](\A id \in TargetIds : Live_ents[id].count >= 0)
    /\ [][(won /\ call'.op = "substep" /\ error' = "none") => won']_vars
\* ------------------------------------------------------------- walkability
\* the Barrels of the state st that stand in a cell with a stops=true entity
Stuck(st) ==
    {id \in DOMAIN st.ents :
        /\ st.ents[id].kind = "Barrel"
        /\ \E p \in Where(st, id) : Blocked(st, p)}

\* C34 as stated: neither apply_translations nor apply_pistons places a Barrel
\* in a cell that holds a stops=true entity.
C34_NoMoveIntoBlocked ==
    [][call'.op \in {"apply_translations", "apply_pistons"} =>
        Stuck(store'[board']) \subseteq Stuck(store[board])]_vars
\* ------------------------------------------------------- the merged Barrel
\* the Barrels on the board of the state st that a merge made
MergedBarrels(st) ==
    {id \in DOMAIN st.ents :
        id >= Original.next_id /\ st.ents[id].kind = "Barrel" /\ Where(st, id) # {}}

\* C35: the Barrel a merge makes has velocity NONE whatever the velocities of
\* the Barrels it replaces; while its velocity is NONE a translation phase
\* leaves it in its cell, and its velocity changes only in a rotation phase
\* with a Boostpad in its cell.
C35_MergedBarrelRests ==
    [][/\ call'.op = "apply_merges" =>
            \A id \in MergedBarrels(store'[board']) \ MergedBarrels(store[board]) :
                store'[board'].ents[id].dir = "NONE"
       /\ \A id \in MergedBarrels(store[board]) \cap MergedBarrels(store'[board']) :
            LET e == store[board].ents[id]
            IN  /\ (call'.op = "apply_translations" /\ e.dir = "NONE") =>
                      Where(store'[board'], id) = Where(store[board], id)
                /\ store'[board'].ents[id].dir # e.dir =>
                      /\ call'.op = "apply_rotations"
                      /\ \E p \in Where(store[board], id) :
                            \E k \in DOMAIN store[board].cells[p] :
                                store[board].ents[store[board].cells[p][k]].kind
                                    = "Boostpad"]_vars

\* the RED Barrel went north and the BLUE one west into (0,0), they merged, and
\* the VIOLET Barrel was still there, at rest, after the next translation phase
C35_Witness ==
    /\ scenario = "Junction" /\ call.op = "apply_translations"
    /\ Original.ents[1].dir = "NORTH" /\ Original.ents[2].dir = "WEST"
    /\ \E id \in MergedBarrels(store[board]) :
          /\ Where(store[board], id) = {At(0, 0)}
          /\ store[board].ents[id] = Barrel("VIOLET", "NONE")
\* ------------------------------------------------------- editing while running
\* C36 as stated: a mouse event that finds the runner in RUN mode, and is not
\* the click that ends the run, leaves the palette and the cells of the board
\* as they are and picks up or drops no entity.
C36_NoEditingInRun ==
    [][(/\ call'.op \in {"mousebuttondown", "mousebuttonup"}
        /\ ~runner.edit_mode
        /\ board' = board) =>
            /\ store'[board].items = store[board].items
            /\ store'[board].cells = store[board].cells
            /\ runner'.held_entity = runner.held_entity]_vars
\* -------------------------------------------------------- the sanity checks
\* C37: the assertions that end resolve_wiring_network never fail, on wiring
\* graphs with and without cycles: after a pass that returned no port of a
\* Wirable of the board holds None and the two ports of every connection hold
\* the same value.
C37_SanityChecksHold ==
    call.op = "resolve_wiring_network" =>
        /\ error # "AssertionError"
        /\ error = "none" =>
              \A p \in BoardPorts :
                  LET wi == Live_ents[p[1]].wirings[p[2] + 1]
                  IN  /\ PortState(p[1], p[2]) # "None"
                      /\ wi.other # NoEntity =>
                            PortState(p[1], p[2]) = PortState(wi.other, wi.j)

\* a pass returned on the ring of the two NOT gates, the OR gate feeding
\* itself
C37_Witness ==
    /\ scenario = "Net" /\ call.op = "resolve_wiring_network" /\ error = "none"
    /\ Live_ents[2].wirings[1].other = 3 /\ Live_ents[3].wirings[1].other = 2
    /\ Live_ents[4].wirings[1].other = 4
    /\ PortState(2, 1) # PortState(3, 1)
\* ------------------------------------------------------ the ports of a Wirable
\* C38 as stated: after any sequence of add_input, remove_input, add_output
\* and remove_output the port counts of every Wirable are within the bounds of
\* its kind, its wirings are num_inputs input ports followed by num_outputs
\* output ports, port_states and ports_visited are as long as wirings, and no
\* port of another entity refers to a port the Wirable no longer has.
C38_PortListsConsistent ==
    \A a \in WirableIds :
        LET e == Live_ents[a]
        IN  /\ e.num_inputs >= min_num_inputs(e.kind)
            /\ e.num_inputs <= max_num_inputs(e.kind)
            /\ e.num_outputs >= min_num_outputs(e.kind)
            /\ e.num_outputs <= max_num_outputs(e.kind)
            /\ Len(e.wirings) = e.num_inputs + e.num_outputs
            /\ \A k \in DOMAIN e.wirings : e.wirings[k].inp <=> (k <= e.num_inputs)
            /\ Len(e.port_states) = Len(e.wirings)
            /\ Len(e.ports_visited) = Len(e.wirings)
            /\ \A b \in WirableIds \ {a} : \A k \in DOMAIN Live_ents[b].wirings :
                   Live_ents[b].wirings[k].other = a =>
                       ListPos(e.wirings, Live_ents[b].wirings[k].j) # 0

\* the parts of C38 the code keeps: counts within the bounds, inputs before
\* outputs, port_states as long as wirings
C38_CountsAndStates ==
    \A a \in WirableIds :
        LET e == Live_ents[a]
        IN  /\ e.num_inputs >= min_num_inputs(e.kind)
            /\ e.num_inputs <= max_num_inputs(e.kind)
            /\ e.num_outputs >= min_num_outputs(e.kind)
            /\ e.num_outputs <= max_num_outputs(e.kind)
            /\ Len(e.wirings) = e.num_inputs + e.num_outputs
            /\ \A k \in DOMAIN e.wirings : e.wirings[k].inp <=> (k <= e.num_inputs)
            /\ Len(e.port_states) = Len(e.wirings)

\* ports_visited as long as wirings
C38_VisitedLength ==
    \A a \in WirableIds : Len(Live_ents[a].ports_visited) = Len(Live_ents[a].wirings)

\* every recorded peer is a port its Wirable has
C38_NoDanglingPeer ==
    \A a \in WirableIds : \A b \in WirableIds \ {a} :
        \A k \in DOMAIN Live_ents[b].wirings :
            Live_ents[b].wirings[k].other = a =>
                ListPos(Live_ents[a].wirings, Live_ents[b].wirings[k].j) # 0
\* ------------------------------------------------------- the index of the Board
\* the (position, entity) pairs Board.get_all() yields
CellPairs(st) ==
    UNION {{<<p, st.cells[p][k]>> : k \in DOMAIN st.cells[p]} : p \in DOMAIN st.cells}

\* C39 as stated: after any sequence of insert and successful remove calls,
\* inserting an entity the board holds already included, get_all(filter_type=T)
\* yields the pairs of get_all() whose entity is a T, and find(e) returns a
\* position of e when some cell holds e and None otherwise.
C39_IndexAgreesWithCells ==
    error = "none" =>
        /\ \A T \in {Live_ents[e].kind : e \in DOMAIN Live_ents} :
               EntriesOf(store[board], {T}) =
                   {en \in CellPairs(store[board]) : Live_ents[en[2]].kind = T}
        /\ \A e \in DOMAIN Live_ents :
               find(store[board], e) \subseteq
                   IF \E en \in CellPairs(store[board]) : en[2] = e
                   THEN {en[1] : en \in {x \in CellPairs(store[board]) : x[2] = e}}
                   ELSE {NoEntity}
====
